---- MODULE Spec2Model ----
(***************************************************************************)
(* Model of the discovery, ledger-synchronisation and peer-connection      *)
(* subsystem of witch-core:                                                *)
(*   src/src/protocol/ledger.py            the Ledger Store                *)
(*   src/src/network/broadcast_manager.py  BroadcastManager (UDP channel)  *)
(*   src/src/network/broadcast_handlers.py its message handlers            *)
(*   src/src/network/discovery.py          NodeDiscovery (UDP channel)     *)
(*   src/src/network/broadcast_discovery.py  BroadcastDiscovery (sender)   *)
(*   src/src/network/server_peer.py        ServerPeer (peer connections)   *)
(*                                                                         *)
(* Timestamps are integers: a value >= 0 is the instant an ISO-8601 string *)
(* produced by datetime.now().isoformat() parses to, Missing is an entry   *)
(* without an `updated` key and Bad is a string datetime.fromisoformat     *)
(* rejects.  One unit of time is one hour.                                 *)
(***************************************************************************)
EXTENDS Integers, Sequences, FiniteSets, TLC

VARIABLES
    disk,       \* the ledger file: [exists, doc, len, owner, torn]
    now,        \* what datetime.now() returns
    nops,       \* number of ledger operations performed so far
    uuids,      \* number of ids uuid.uuid4() has generated so far
    last,       \* the last ledger operation: its arguments, the ledger it loaded, its result
    pc,         \* per thread: where it is in the ledger function it runs
    work,       \* per thread: the ledger_data it is saving
    seen,       \* per thread: what its last load_ledger returned
    stable,     \* the last document that was written to the ledger file completely
    remA,       \* merging in two orders: remote ledger A
    remB,       \* merging in two orders: remote ledger B
    diskAB,     \* the ledger file of the run that merges A, then B
    diskBA,     \* the ledger file of the run that merges B, then A
    cphase,     \* number of merges the two runs have made
    craised,    \* whether one of these merges raised
    store,      \* per host: its ledger file
    nwrites,    \* number of local writes the hosts have made
    synced,     \* whether a ledger_sync message has changed a receiver's node entries
    discovered_peers,   \* ServerPeer: ids of the discovered peers
    connected_peers,    \* ServerPeer: ids of the connected peers
    peer_clients,       \* ServerPeer: ids of the peers it holds a client for
    link,       \* per peer: whether its client is_connected()
    hs,         \* per peer: what the last _send_peer_handshake for it came to
    ppc,        \* where the peer discovery thread is in its pass
    npass,      \* number of passes of the peer discovery thread
    discovery_running,  \* self.discovery_running of the ServerPeer
    fanout,     \* the last broadcast_to_peers: the clients it held, what it returned
    server_protocols,   \* ServerPeer: self.server.protocols
    discovered_nodes,       \* BroadcastManager: its cache of discovered nodes
    nd_discovered_nodes,    \* NodeDiscovery: its cache of discovered nodes
    received,   \* the last datagram a channel received, and the state it arrived in
    returned,   \* the last get_discovered_nodes call: the cache it found, what it returned
    manager,            \* BroadcastManager: running, its socket, its listener thread
    node_discovery,     \* NodeDiscovery: running, its socket, its two threads
    broadcast_discovery,    \* BroadcastDiscovery: running, its socket, its threads
    started,    \* the last call of a channel's start, and what it returned
    sender,     \* BroadcastDiscovery: the thread that runs _send_broadcast_with_retry
    auto,       \* BroadcastDiscovery: where _auto_discovery_thread is, what it has done
    tree,       \* the src directory: per file, its content
    file_hash_cache,    \* per process: the lru_cache of calculate_file_hash
    hashed      \* per process: its last calculate_src_directory_hash call

ledgerVars == <<disk, now, nops, uuids, last>>

fileVars == <<pc, work, seen, stable>>

commuteVars == <<remA, remB, diskAB, diskBA, cphase, craised>>

syncVars == <<store, nwrites, synced>>

peerVars == <<discovered_peers, connected_peers, peer_clients, link, hs, ppc, npass,
              discovery_running, fanout, server_protocols>>

chanVars == <<discovered_nodes, nd_discovered_nodes, received, returned>>

lifeVars == <<manager, node_discovery, broadcast_discovery, started, sender, auto>>

netVars == <<peerVars, chanVars, lifeVars>>

hashVars == <<tree, file_hash_cache, hashed>>

vars == <<ledgerVars, fileVars, commuteVars, hashVars, syncVars, netVars>>

----------------------------------------------------------------------------
(* Bounds *)

\* the largest retry_count passed to send_discovery_broadcast
MaxRetry == 2

\* the largest number of entries BroadcastDiscovery.discovered_nodes gets
\* the largest number of cycles the auto-discovery thread makes
MaxCycles == 3

\* the src directory holds the files 0..MaxFiles
MaxFiles == 2

MaxFound == 2

MaxTime == 2

MaxOps == 2

MaxRegs == 3

MaxUuids == 1

\* local writes of the hosts that exchange ledgers
MaxWrites == 2

\* passes of the peer discovery thread
MaxPasses == 2

----------------------------------------------------------------------------
(* Values *)

\* node.get("id") of an entry that has no id (None, falsy)
NoId == ""

\* name=None
NoName == ""

\* remote_ledger without a "version" key
NoVersion == ""

\* an entry without an "updated" key
Missing == -1

\* an "updated" string that datetime.fromisoformat rejects
Bad == -2

\* "2000-01-01T00:00:00", the default of .get("updated", ...)
Epoch == 0

\* the number of pieces json.dump writes a document in
DocChunks == 2

\* calculate_src_directory_hash() of this process
OwnHash == "h1"

NodeIds == {"n1", "n2"}

UuidPool == <<"u1", "u2">>

Addrs == {<<"ip1", 9001>>, <<"ip2", 9001>>, <<"ip1", 9002>>}

----------------------------------------------------------------------------
(* The ledger document *)

\* _create_default_ledger
CreateDefaultLedger(t) ==
    [nodes |-> <<>>, protocols |-> <<>>, version |-> "1.0.0",
     created_at |-> t, updated_at |-> t]

\* _create_node_entry: name or node_id, protocols or []
CreateNodeEntry(node_id, ip, port, src_hash, name, protocols, t) ==
    [id |-> node_id, ip |-> ip, port |-> port, hash |-> src_hash,
     name |-> IF name # NoName THEN name ELSE node_id,
     protocols |-> protocols, updated |-> t, status |-> "active"]

\* json.load of the file: a document that was written completely parses; an empty
\* or truncated one, or one two writers wrote into at once, raises JSONDecodeError
ParsesAsJson(d) == d.len = DocChunks /\ ~d.torn

\* what a ledger file holds when it was not written by save_ledger: bytes that
\* are not UTF-8, a JSON value that is no ledger document (such as {} or []), a
\* file that open() or read() refuses with an IOError
Undecodable == [kind |-> "not utf-8"]

NotALedger == [kind |-> "json, not a ledger"]

Unreadable == [kind |-> "unreadable"]

\* load_ledger: what it returns.  JSONDecodeError and IOError give the default
\* ledger; whatever json.load returns is returned as it is
LoadLedger(d, t) ==
    IF d.exists
    THEN IF ParsesAsJson(d) /\ d.doc # Unreadable THEN d.doc ELSE CreateDefaultLedger(t)
    ELSE CreateDefaultLedger(t)

\* load_ledger raises: the UnicodeDecodeError of a file that is not UTF-8 is
\* neither a JSONDecodeError nor an IOError
LoadRaises(d) == d.exists /\ d.doc = Undecodable

\* ledger["nodes"] raises KeyError or TypeError
HasNoNodes(ledger) == ledger = NotALedger

\* save_ledger as one step: refresh updated_at, open(path, 'w'), json.dump, close
SaveLedger(ledger_data, t) ==
    [exists |-> TRUE, doc |-> [ledger_data EXCEPT !.updated_at = t], len |-> DocChunks,
     owner |-> "", torn |-> FALSE]

\* the elements of a list
Range(s) == {s[i] : i \in DOMAIN s}

\* the first of a set of positions of a list, 0 if the set is empty: where a search
\* loop that stops at its first match (`break`) stops
FirstOf(S) == IF S = {} THEN 0 ELSE CHOOSE i \in S : \A j \in S : i <= j

\* "node-{ip}-{port}"
DefaultNodeName(ip, port) == "node-" \o ip \o "-" \o ToString(port)

----------------------------------------------------------------------------
(* register_node *)

\* the test of the search loop of register_node:
\* node.get("id") == node_id or (node.get("ip") == ip and node.get("port") == port)
NodeMatchesIdOnly(node, ip, port, node_id) ==
    node.id = node_id

NodeMatchesAddrOnly(node, ip, port, node_id) ==
    node.ip = ip /\ node.port = port

NodeMatches(node, ip, port, node_id) ==
    node.id = node_id \/ (node.ip = ip /\ node.port = port)

\* the branch `if existing_node:` of register_node: the fields it overwrites
UpdateNodeEntry(node, ip, port, src_hash, name, protocols, t) ==
    [node EXCEPT !.ip = ip, !.port = port, !.hash = src_hash, !.name = name,
                 !.protocols = IF protocols # <<>> THEN protocols ELSE node.protocols,
                 !.updated = t, !.status = "active"]

\* register_node from the loaded ledger to the ledger it saves; node_id and name
\* are the values after the defaults for None have been filled in
RegisterNodeLedger(ledger, ip, port, protocols, name, node_id, t) ==
    LET k == FirstOf({i \in DOMAIN ledger.nodes : NodeMatches(ledger.nodes[i], ip, port, node_id)})
    IN  IF k # 0
        THEN [ledger EXCEPT !.nodes[k] =
                 UpdateNodeEntry(ledger.nodes[k], ip, port, OwnHash, name, protocols, t)]
        ELSE [ledger EXCEPT !.nodes =
                 Append(ledger.nodes,
                        CreateNodeEntry(node_id, ip, port, OwnHash, name, protocols, t))]

----------------------------------------------------------------------------
(* register_protocol *)

\* protocol.get("id") == protocol_id or protocol.get("name") == name
ProtocolMatches(protocol, protocol_id, name) ==
    protocol.id = protocol_id \/ protocol.name = name

RegisterProtocolLedger(ledger, protocol_id, name, format_str, options, t) ==
    LET k == FirstOf({i \in DOMAIN ledger.protocols :
                          ProtocolMatches(ledger.protocols[i], protocol_id, name)})
    IN  IF k # 0
        THEN [ledger EXCEPT !.protocols[k] =
                 [@ EXCEPT !.name = name, !.format = format_str,
                           !.options = IF options # {} THEN options ELSE @,
                           !.updated = t]]
        ELSE [ledger EXCEPT !.protocols =
                 Append(ledger.protocols,
                        [id |-> protocol_id, name |-> name, format |-> format_str,
                         options |-> options, created |-> t, updated |-> t])]

----------------------------------------------------------------------------
(* merge_ledgers *)

\* datetime.fromisoformat(entry.get("updated", "2000-01-01T00:00:00")) of a string it accepts
ParseUpdated(u) == IF u = Missing THEN Epoch ELSE u

\* `if remote_updated > local_updated:`
RemoteWinsOnTie(local_updated, remote_updated) == remote_updated >= local_updated

RemoteWinsAlways(local_updated, remote_updated) == TRUE

RemoteWinsNever(local_updated, remote_updated) == FALSE

RemoteWins(local_updated, remote_updated) == remote_updated > local_updated

\* the position of key k in a dict kept as the sequence of its values, 0 if absent
KeyIndex(m, k) == FirstOf({i \in DOMAIN m : m[i].id = k})

\* {entry.get("id"): entry for entry in entries}: a later entry with the same key
\* takes the place of the earlier one
RECURSIVE DictFromList(_, _, _)
DictFromList(m0, entries, i) ==
    IF i > Len(entries) THEN m0
    ELSE LET Put(m) == LET k == KeyIndex(m, entries[i].id)
                       IN  IF k = 0 THEN Append(m, entries[i])
                           ELSE [m EXCEPT ![k] = entries[i]]
         IN  \* m0 is bound through a singleton set, so that it is computed once
             DictFromList(CHOOSE d \in {Put(m) : m \in {m0}} : TRUE, entries, i + 1)

\* `if node_id in node_map:` is false: the branch that adds a remote entry
AddNewEntryDropped(m, remote_entry) == m

AddNewEntry(m, remote_entry) == Append(m, remote_entry)

\* the loop over the remote entries (the same loop for nodes and for protocols);
\* raised is the ValueError of datetime.fromisoformat
RECURSIVE MergeEntries(_, _, _)
MergeEntries(m0, remote, i) ==
    IF i > Len(remote) THEN [raised |-> FALSE, map |-> m0]
    ELSE LET r == remote[i]
             Body(m) ==
                 LET k == KeyIndex(m, r.id)
                 IN  IF r.id = NoId THEN MergeEntries(m, remote, i + 1)
                     ELSE IF k = 0 THEN MergeEntries(AddNewEntry(m, r), remote, i + 1)
                     ELSE IF m[k].updated = Bad \/ r.updated = Bad
                          THEN [raised |-> TRUE, map |-> m]
                     ELSE IF RemoteWins(ParseUpdated(m[k].updated), ParseUpdated(r.updated))
                          THEN MergeEntries([m EXCEPT ![k] = r], remote, i + 1)
                     ELSE MergeEntries(m, remote, i + 1)
         IN  CHOOSE res \in {Body(m) : m \in {m0}} : TRUE

\* merge_ledgers from the loaded ledger to the ledger it builds
MergeLedgersResult(local_ledger, remote_ledger, t) ==
    LET Build(ns, ps) ==
            [raised |-> ns.raised \/ ps.raised,
             ledger |-> [nodes |-> ns.map, protocols |-> ps.map,
                         version |-> IF remote_ledger.version # NoVersion
                                     THEN remote_ledger.version ELSE local_ledger.version,
                         created_at |-> local_ledger.created_at,
                         updated_at |-> t]]
    IN  CHOOSE res \in
            {Build(ns, ps) :
                ns \in {MergeEntries(DictFromList(<<>>, local_ledger.nodes, 1),
                                     remote_ledger.nodes, 1)},
                ps \in {MergeEntries(DictFromList(<<>>, local_ledger.protocols, 1),
                                     remote_ledger.protocols, 1)}} : TRUE

----------------------------------------------------------------------------
(* clean_inactive_nodes *)

\* the body of the loop of clean_inactive_nodes for one node: the node afterwards
\* and whether inactive_count was incremented
CleanNodeAtThreshold(node, max_age_hours, t) ==
    IF node.updated = Bad
    THEN [node |-> [node EXCEPT !.status = "inactive"], counted |-> TRUE]
    ELSE IF t - ParseUpdated(node.updated) >= max_age_hours /\ node.status = "active"
         THEN [node |-> [node EXCEPT !.status = "inactive"], counted |-> TRUE]
         ELSE [node |-> node, counted |-> FALSE]

CleanNode(node, max_age_hours, t) ==
    IF node.updated = Bad
    THEN [node |-> [node EXCEPT !.status = "inactive"], counted |-> TRUE]
    ELSE IF t - ParseUpdated(node.updated) > max_age_hours /\ node.status = "active"
         THEN [node |-> [node EXCEPT !.status = "inactive"], counted |-> TRUE]
         ELSE [node |-> node, counted |-> FALSE]

CleanInactiveResultPurged(ledger, max_age_hours, t) ==
    LET Kept(node) == ~CleanNode(node, max_age_hours, t).counted
    IN  [ledger |-> [ledger EXCEPT !.nodes = SelectSeq(ledger.nodes, Kept)],
         count |-> Len(ledger.nodes) - Len(SelectSeq(ledger.nodes, Kept))]

CleanInactiveResult(ledger, max_age_hours, t) ==
    LET cleaned == [i \in 1..Len(ledger.nodes) |-> CleanNode(ledger.nodes[i], max_age_hours, t)]
    IN  [ledger |-> [ledger EXCEPT !.nodes = [i \in 1..Len(ledger.nodes) |-> cleaned[i].node]],
         count |-> Cardinality({i \in 1..Len(ledger.nodes) : cleaned[i].counted})]

----------------------------------------------------------------------------
(* Inputs of the ledger operations *)

\* a node entry of a remote ledger, as another node's register_node wrote it
RemoteNode(id, u) ==
    [id |-> id, ip |-> "ip9", port |-> 9009, hash |-> OwnHash, name |-> "remote",
     protocols |-> <<>>, updated |-> u, status |-> "active"]

RemoteProtocol(id, u) ==
    [id |-> id, name |-> "gamma", format |-> "f9", options |-> {},
     created |-> u, updated |-> u]

RemoteUpdated == {Missing, Bad, 1, 2}

RemoteNodeLists ==
    {<<>>}
    \cup {<<RemoteNode(id, u)>> : id \in {"n1", "n3", NoId}, u \in RemoteUpdated}
    \cup {<<RemoteNode("n3", 1), RemoteNode("n1", u)>> : u \in RemoteUpdated}
    \cup {<<RemoteNode(NoId, 2), RemoteNode("n2", u)>> : u \in RemoteUpdated}

RemoteProtocolLists ==
    {<<RemoteProtocol(id, u)>> : id \in {"p1", "p3", NoId}, u \in {Bad, 1, 2}}

RemoteLedger(ns, ps, v) == [nodes |-> ns, protocols |-> ps, version |-> v]

RemoteLedgers ==
    {RemoteLedger(ns, <<>>, NoVersion) : ns \in RemoteNodeLists}
    \cup {RemoteLedger(<<>>, ps, "2.0.0") : ps \in RemoteProtocolLists}
    \cup {RemoteLedger(<<RemoteNode("n1", 2)>>, <<RemoteProtocol("p1", 2)>>, "2.0.0")}

\* (protocol_id, name, format_str, options) of the register_protocol calls
ProtocolArgs ==
    {<<"p1", "alpha", "f1", {}>>, <<"p2", "beta", "f1", {"o"}>>,
     <<"p1", "beta", "f2", {}>>, <<"p2", "alpha", "f2", {"o"}>>}

\* max_age_hours of the clean_inactive_nodes calls
MaxAges == {0, 1}

----------------------------------------------------------------------------
(* The ledger operations as steps of one process *)

NoLedger == CreateDefaultLedger(0)

NoFile == [exists |-> FALSE, doc |-> NoLedger, len |-> 0, owner |-> "", torn |-> FALSE]

LastNone ==
    [op |-> "none", id |-> NoId, ip |-> "", port |-> 0, t |-> 0, remote |-> NoLedger,
     pre |-> NoLedger, out |-> NoLedger, ret |-> NoId, count |-> 0, raised |-> FALSE,
     max_age_hours |-> 0, file |-> NoFile, protocols |-> <<>>, name |-> NoName]

\* register_node(ip, port, protocols, name, node_id)
RegisterNode(ip, port, protocols, name, node_id) ==
    /\ node_id = NoId => uuids < MaxUuids
    /\ LET id == IF node_id = NoId THEN UuidPool[uuids + 1] ELSE node_id
           nm == IF name = NoName THEN DefaultNodeName(ip, port) ELSE name
           ledger == LoadLedger(disk, now)
           out == RegisterNodeLedger(ledger, ip, port, protocols, nm, id, now)
       IN  /\ disk' = SaveLedger(out, now)
           /\ uuids' = IF node_id = NoId THEN uuids + 1 ELSE uuids
           /\ last' = [LastNone EXCEPT !.op = "register_node", !.id = id, !.ip = ip,
                                       !.port = port, !.t = now, !.pre = ledger,
                                       !.out = out, !.ret = id,
                                       !.protocols = protocols, !.name = nm]
    /\ nops' = nops + 1
    /\ UNCHANGED now

\* register_protocol(protocol_id, name, format_str, options)
RegisterProtocol(protocol_id, name, format_str, options) ==
    /\ LET ledger == LoadLedger(disk, now)
           out == RegisterProtocolLedger(ledger, protocol_id, name, format_str, options, now)
       IN  /\ disk' = SaveLedger(out, now)
           /\ last' = [LastNone EXCEPT !.op = "register_protocol", !.id = protocol_id,
                                       !.pre = ledger, !.out = out]
    /\ nops' = nops + 1
    /\ UNCHANGED <<now, uuids>>

\* merge_ledgers(remote_ledger); when datetime.fromisoformat raises, nothing is saved
MergeLedgers(remote_ledger) ==
    /\ LET ledger == LoadLedger(disk, now)
           res == MergeLedgersResult(ledger, remote_ledger, now)
       IN  /\ disk' = IF res.raised THEN disk ELSE SaveLedger(res.ledger, now)
           /\ last' = [LastNone EXCEPT !.op = "merge_ledgers", !.remote = remote_ledger,
                                       !.pre = ledger,
                                       !.out = IF res.raised THEN ledger ELSE res.ledger,
                                       !.raised = res.raised]
    /\ nops' = nops + 1
    /\ UNCHANGED <<now, uuids>>

\* clean_inactive_nodes(max_age_hours)
CleanInactiveNodes(max_age_hours) ==
    /\ LET ledger == LoadLedger(disk, now)
           res == CleanInactiveResult(ledger, max_age_hours, now)
       IN  /\ disk' = IF res.count > 0 THEN SaveLedger(res.ledger, now) ELSE disk
           /\ last' = [LastNone EXCEPT !.op = "clean_inactive_nodes", !.pre = ledger,
                                       !.out = res.ledger, !.count = res.count,
                                       !.t = now, !.max_age_hours = max_age_hours]
    /\ nops' = nops + 1
    /\ UNCHANGED <<now, uuids>>

\* load_ledger()
LoadLedgerCall ==
    /\ last' = [LastNone EXCEPT !.op = "load_ledger", !.t = now, !.file = disk,
                                !.raised = LoadRaises(disk),
                                !.out = IF LoadRaises(disk) THEN NoLedger
                                        ELSE LoadLedger(disk, now)]
    /\ nops' = nops + 1
    /\ UNCHANGED <<disk, now, uuids>>

\* get_node_by_id(node_id): load_ledger, then the loop over ledger["nodes"]
GetNodeById(node_id) ==
    /\ LET raised == LoadRaises(disk) \/ HasNoNodes(LoadLedger(disk, now))
       IN  last' = [LastNone EXCEPT
                       !.op = "get_node_by_id", !.t = now, !.file = disk, !.id = node_id,
                       !.raised = raised,
                       !.ret = IF ~raised /\ node_id \in
                                     {LoadLedger(disk, now).nodes[i].id :
                                          i \in DOMAIN LoadLedger(disk, now).nodes}
                               THEN node_id ELSE NoId]
    /\ nops' = nops + 1
    /\ UNCHANGED <<disk, now, uuids>>

\* the ledger file is replaced or damaged from outside the program
FileReplaced(content, len) ==
    /\ disk' = [exists |-> TRUE, doc |-> content, len |-> len, owner |-> "", torn |-> FALSE]
    /\ UNCHANGED <<now, nops, uuids, last>>

\* time passes
Tick ==
    /\ now < MaxTime
    /\ now' = now + 1
    /\ UNCHANGED <<disk, nops, uuids, last>>

InitLedger ==
    /\ disk = NoFile
    /\ now = 1
    /\ nops = 0
    /\ uuids = 0
    /\ last = LastNone

RegisterNodeStep ==
    /\ nops < MaxOps
    /\ \E a \in Addrs, id \in NodeIds \cup {NoId} :
          RegisterNode(a[1], a[2], <<>>, NoName, id)
    /\ UNCHANGED <<fileVars, commuteVars, hashVars, syncVars, netVars>>

RegisterProtocolStep ==
    /\ nops < MaxOps
    /\ \E a \in ProtocolArgs : RegisterProtocol(a[1], a[2], a[3], a[4])
    /\ UNCHANGED <<fileVars, commuteVars, hashVars, syncVars, netVars>>

RegisterProtocolOnlyStep ==
    /\ nops < MaxRegs
    /\ \E a \in ProtocolArgs : RegisterProtocol(a[1], a[2], a[3], a[4])
    /\ UNCHANGED <<fileVars, commuteVars, hashVars, syncVars, netVars>>

\* the remote ledger is one of RemoteLedgers, or the ledger that is on file
MergeLedgersStep ==
    /\ nops < MaxOps
    /\ \E r \in RemoteLedgers \cup {LoadLedger(disk, now)} : MergeLedgers(r)
    /\ UNCHANGED <<fileVars, commuteVars, hashVars, syncVars, netVars>>

CleanInactiveNodesStep ==
    /\ nops < MaxOps
    /\ \E h \in MaxAges : CleanInactiveNodes(h)
    /\ UNCHANGED <<fileVars, commuteVars, hashVars, syncVars, netVars>>

LoadLedgerStep ==
    /\ nops < MaxOps
    /\ LoadLedgerCall
    /\ UNCHANGED <<fileVars, commuteVars, hashVars, syncVars, netVars>>

GetNodeByIdStep ==
    /\ nops < MaxOps
    /\ \E id \in NodeIds : GetNodeById(id)
    /\ UNCHANGED <<fileVars, commuteVars, hashVars, syncVars, netVars>>

\* register_node on a file that load_ledger turns into a ledger
RegisterSoundStep ==
    /\ ~LoadRaises(disk)
    /\ ~HasNoNodes(LoadLedger(disk, now))
    /\ RegisterNodeStep

FileReplacedStep ==
    /\ \E content \in {Undecodable, NotALedger, Unreadable, NoLedger}, len \in {0, DocChunks} :
          FileReplaced(content, len)
    /\ UNCHANGED <<fileVars, commuteVars, hashVars, syncVars, netVars>>

TickStep ==
    /\ Tick
    /\ UNCHANGED <<fileVars, commuteVars, hashVars, syncVars, netVars>>

RegisterOnlyStep ==
    /\ nops < MaxRegs
    /\ \E a \in Addrs, id \in NodeIds \cup {NoId} :
          RegisterNode(a[1], a[2], <<>>, NoName, id)
    /\ UNCHANGED <<fileVars, commuteVars, hashVars, syncVars, netVars>>

----------------------------------------------------------------------------
(* The ledger functions as they run in the threads of one process: save_ledger    *)
(* opens the ledger file itself with mode 'w', which empties it, and json.dump    *)
(* then writes the document into it piece by piece                                *)

Threads == {"main", "recv"}

NotLoaded == [loaded |-> FALSE, ledger |-> NoLedger, prev |-> NoLedger, inflight |-> {}]

InitFile ==
    /\ pc = [t \in Threads |-> "idle"]
    /\ work = [t \in Threads |-> NoLedger]
    /\ seen = [t \in Threads |-> NotLoaded]
    /\ stable = NoLedger

\* the documents that threads are in the middle of writing
InFlight == {work[t] : t \in {u \in Threads : pc[u] = "dump"}}

\* load_ledger() called by thread t
ThreadLoad(t) ==
    /\ pc[t] = "idle"
    /\ seen' = [seen EXCEPT ![t] = [loaded |-> TRUE, ledger |-> LoadLedger(disk, now),
                                    prev |-> stable, inflight |-> InFlight]]
    /\ UNCHANGED <<ledgerVars, pc, work, stable, commuteVars, hashVars, syncVars, netVars>>

\* register_node in thread t up to its call of save_ledger (ledger.py:141-180)
ThreadRegisterNode(t, ip, port, node_id) ==
    /\ pc[t] = "idle"
    /\ nops < MaxOps
    /\ LET ledger == LoadLedger(disk, now)
           out == RegisterNodeLedger(ledger, ip, port, <<>>, DefaultNodeName(ip, port),
                                     node_id, now)
       IN  work' = [work EXCEPT ![t] = out]
    /\ pc' = [pc EXCEPT ![t] = "save"]
    /\ nops' = nops + 1
    /\ UNCHANGED <<disk, now, uuids, last, seen, stable, commuteVars, hashVars, syncVars, netVars>>

\* save_ledger: ledger_data["updated_at"] = now; open(ledger_path, 'w')
ThreadSaveOpen(t) ==
    /\ pc[t] = "save"
    /\ work' = [work EXCEPT ![t].updated_at = now]
    /\ disk' = [exists |-> TRUE, doc |-> work'[t], len |-> 0, owner |-> t, torn |-> FALSE]
    /\ pc' = [pc EXCEPT ![t] = "dump"]
    /\ UNCHANGED <<now, nops, uuids, last, seen, stable, commuteVars, hashVars, syncVars, netVars>>

\* save_ledger: json.dump writes the next piece; with the last piece the file is closed
ThreadSaveWrite(t) ==
    /\ pc[t] = "dump"
    /\ LET mine == disk.owner = t /\ ~disk.torn
           len == IF mine THEN disk.len + 1 ELSE disk.len
       IN  /\ disk' = IF mine THEN [disk EXCEPT !.len = len] ELSE [disk EXCEPT !.torn = TRUE]
           /\ pc' = [pc EXCEPT ![t] = IF mine /\ len < DocChunks THEN "dump" ELSE "idle"]
           /\ stable' = IF mine /\ len = DocChunks THEN disk.doc ELSE stable
    /\ UNCHANGED <<now, nops, uuids, last, work, seen, commuteVars, hashVars, syncVars, netVars>>

ThreadRegisterNodeStep ==
    \E t \in Threads, a \in Addrs, id \in NodeIds : ThreadRegisterNode(t, a[1], a[2], id)

ThreadSaveOpenStep == \E t \in Threads : ThreadSaveOpen(t)

ThreadSaveWriteStep == \E t \in Threads : ThreadSaveWrite(t)

ThreadLoadStep == \E t \in Threads : ThreadLoad(t)

----------------------------------------------------------------------------
(* Two remote ledgers merged into the same local ledger in both orders: the      *)
(* local ledger file is copied, and merge_ledgers is called twice on each copy   *)

\* a remote node entry that carries the name of its ledger
TaggedNode(id, u, tag) == [RemoteNode(id, u) EXCEPT !.name = tag]

TaggedProtocol(id, u, tag) == [RemoteProtocol(id, u) EXCEPT !.name = tag]

CommuteUpdated == {Missing, 1, 3}

CommuteRemotes(tag) ==
    {RemoteLedger(ns, ps, NoVersion) :
        ns \in {<<>>, <<TaggedNode("n3", 1, tag)>>}
               \cup {<<TaggedNode("n1", u, tag)>> : u \in CommuteUpdated},
        ps \in {<<>>} \cup {<<TaggedProtocol("p1", u, tag)>> : u \in {1, 3}}}

\* the local ledger is built by register_node and register_protocol calls
CommuteLocalStep ==
    /\ cphase = 0
    /\ nops < MaxOps
    /\ \/ RegisterNode("ip1", 9001, <<>>, NoName, "n1")
       \/ RegisterProtocol("p1", "alpha", "f1", {})
    /\ UNCHANGED <<fileVars, commuteVars, hashVars, syncVars, netVars>>

\* merge_ledgers(remote_ledger) on the ledger file d
MergeInto(d, remote_ledger, t) ==
    CHOOSE m \in {[raised |-> res.raised,
                   disk |-> IF res.raised THEN d ELSE SaveLedger(res.ledger, t)] :
                  res \in {MergeLedgersResult(LoadLedger(d, t), remote_ledger, t)}} : TRUE

CommuteFirstAB ==
    /\ cphase = 0
    /\ LET m == MergeInto(disk, remA, now)
       IN  diskAB' = m.disk /\ craised' = (craised \/ m.raised)
    /\ cphase' = 1
    /\ UNCHANGED <<ledgerVars, fileVars, remA, remB, diskBA, syncVars, netVars, hashVars>>

CommuteSecondAB ==
    /\ cphase = 1
    /\ LET m == MergeInto(diskAB, remB, now)
       IN  diskAB' = m.disk /\ craised' = (craised \/ m.raised)
    /\ cphase' = 2
    /\ UNCHANGED <<ledgerVars, fileVars, remA, remB, diskBA, syncVars, netVars, hashVars>>

CommuteFirstBA ==
    /\ cphase = 2
    /\ LET m == MergeInto(disk, remB, now)
       IN  diskBA' = m.disk /\ craised' = (craised \/ m.raised)
    /\ cphase' = 3
    /\ UNCHANGED <<ledgerVars, fileVars, remA, remB, diskAB, syncVars, netVars, hashVars>>

CommuteSecondBA ==
    /\ cphase = 3
    /\ LET m == MergeInto(diskBA, remA, now)
       IN  diskBA' = m.disk /\ craised' = (craised \/ m.raised)
    /\ cphase' = 4
    /\ UNCHANGED <<ledgerVars, fileVars, remA, remB, diskAB, syncVars, netVars, hashVars>>

----------------------------------------------------------------------------
(* Hosts that each keep a ledger file, write to it locally, and broadcast it to  *)
(* each other: every received ledger_sync message is handled by                  *)
(* _handle_ledger_sync, which passes the ledger to merge_ledgers                 *)

Hosts == {"a", "b"}

\* register_node on host h
SyncRegisterNode(h, ip, port, node_id) ==
    /\ nwrites < MaxWrites
    /\ LET out == RegisterNodeLedger(LoadLedger(store[h], now), ip, port, <<>>,
                                     DefaultNodeName(ip, port), node_id, now)
       IN  store' = [store EXCEPT ![h] = SaveLedger(out, now)]
    /\ nwrites' = nwrites + 1
    /\ UNCHANGED <<ledgerVars, fileVars, commuteVars, hashVars, synced, netVars>>

\* register_protocol on host h
SyncRegisterProtocol(h, protocol_id, name, format_str) ==
    /\ nwrites < MaxWrites
    /\ LET out == RegisterProtocolLedger(LoadLedger(store[h], now), protocol_id, name,
                                         format_str, {}, now)
       IN  store' = [store EXCEPT ![h] = SaveLedger(out, now)]
    /\ nwrites' = nwrites + 1
    /\ UNCHANGED <<ledgerVars, fileVars, commuteVars, hashVars, synced, netVars>>

\* clean_inactive_nodes on host h
SyncCleanInactiveNodes(h, max_age_hours) ==
    /\ nwrites < MaxWrites
    /\ LET res == CleanInactiveResult(LoadLedger(store[h], now), max_age_hours, now)
       IN  /\ res.count > 0
           /\ store' = [store EXCEPT ![h] = SaveLedger(res.ledger, now)]
    /\ nwrites' = nwrites + 1
    /\ UNCHANGED <<ledgerVars, fileVars, commuteVars, hashVars, synced, netVars>>

\* the ledger_sync message a host broadcasts: its hash and its ledger
LedgerSyncMessage(h, t) == [type |-> "ledger_sync", hash |-> OwnHash, has_ledger |-> TRUE,
                            ledger |-> LoadLedger(store[h], t)]

\* message.get('ledger')
LedgerPayload(message) ==
    [nodes |-> message.ledger.nodes, protocols |-> message.ledger.protocols,
     version |-> message.ledger.version]

\* _handle_ledger_sync on the ledger file d: an incompatible hash is ignored, and
\* so is a message without ledger; an exception of merge_ledgers is logged and
\* leaves the file as it was
HandleLedgerSync(d, message, src_hash, t) ==
    IF message.hash # src_hash \/ ~message.has_ledger
    THEN d
    ELSE MergeInto(d, LedgerPayload(message), t).disk

\* host j receives the ledger that host i broadcasts
Exchange(i, j) ==
    /\ i # j
    /\ store' = [store EXCEPT ![j] = HandleLedgerSync(store[j], LedgerSyncMessage(i, now),
                                                      OwnHash, now)]
    /\ synced' = (synced \/ store'[j].doc.nodes # store[j].doc.nodes)
    /\ UNCHANGED <<ledgerVars, fileVars, commuteVars, hashVars, nwrites, netVars>>

SyncRegisterNodeStep ==
    \E h \in Hosts, ip \in {"ip1", "ip2"} : SyncRegisterNode(h, ip, 9001, "n1")

SyncRegisterProtocolStep == \E h \in Hosts : SyncRegisterProtocol(h, "p1", "alpha", "f1")

SyncCleanInactiveNodesStep == \E h \in Hosts : SyncCleanInactiveNodes(h, 0)

ExchangeStep == \E i, j \in Hosts : Exchange(i, j)

----------------------------------------------------------------------------
(* ServerPeer: the peer discovery thread. The client it connects with is a      *)
(* collaborator: its constructor, connect, send and receive may each fail        *)

ServerId == "srv"

PeerIds == {"n1", "n2"}

ProjectTag == "PROJECT:default"

NoPeers == {}

\* attempted are the peers this pass has called Client(...) for, failed those of
\* them whose connection or handshake did not succeed
Sleeping ==
    [at |-> "sleep", peer |-> NoId, todo |-> NoPeers, project_nodes |-> NoPeers,
     attempted |-> NoPeers, failed |-> NoPeers]

\* no broadcast_to_peers yet
NoFanout ==
    [called |-> FALSE, clients |-> NoPeers, connected |-> NoPeers, succeeded |-> NoPeers,
     sent_count |-> 0]

InitPeer ==
    /\ discovered_peers = NoPeers
    /\ connected_peers = NoPeers
    /\ peer_clients = NoPeers
    /\ link = [p \in PeerIds |-> FALSE]
    /\ hs = [p \in PeerIds |-> "none"]
    /\ ppc = Sleeping
    /\ npass = 0
    /\ discovery_running = TRUE
    /\ fanout = NoFanout
    /\ server_protocols = <<>>

\* get_compatible_nodes(src_hash)
GetCompatibleNodes(ledger, src_hash) ==
    {node \in Range(ledger.nodes) : node.hash = src_hash /\ node.status = "active"}

\* the ids _discover_compatible_peers finds: compatible nodes with the project tag
\* that are not this server
ProjectNodeIds(ledger, src_hash) ==
    {node.id : node \in {n \in GetCompatibleNodes(ledger, src_hash) :
                            ProjectTag \in Range(n.protocols) /\ n.id # ServerId}}

\* the same filter in the ServerPeer of another server: the entries it selects
ProjectNodesOf(ledger, src_hash, server_id) ==
    {n \in GetCompatibleNodes(ledger, src_hash) :
        ProjectTag \in Range(n.protocols) /\ n.id # server_id}

\* self.server._get_local_ip() and self.server.port
ServerIp == "ip2"

ServerPort == 9002

\* self.server.server_name: f"server-{self.server_id[:8]}"
ServerName == "server-" \o ServerId

\* the server_id, a uuid, of an earlier run of the server at the same address
EarlierServerId == "srv0"

\* current_protocols: self.server.protocols, with project_tag appended if absent
CurrentProtocols(protocols) ==
    IF ProjectTag \in Range(protocols) THEN protocols ELSE Append(protocols, ProjectTag)

\* register_with_project_id
RegisterWithProjectId ==
    /\ nops < MaxOps
    /\ RegisterNode(ServerIp, ServerPort, CurrentProtocols(server_protocols), ServerName,
                    ServerId)
    /\ server_protocols' = CurrentProtocols(server_protocols)
    /\ UNCHANGED <<fileVars, commuteVars, hashVars, syncVars, chanVars, lifeVars,
                   discovered_peers, connected_peers, peer_clients, link, hs, ppc, npass,
                   discovery_running,
                   fanout>>

\* Server._register_server_info of the earlier run: register_node under its own id
EarlierServerRegisterStep ==
    /\ nops < MaxOps
    /\ \E protocols \in {<<>>, <<ProjectTag>>} :
           RegisterNode(ServerIp, ServerPort, protocols, NoName, EarlierServerId)
    /\ UNCHANGED <<fileVars, commuteVars, hashVars, syncVars, netVars>>

\* a node of the project registers itself in the ledger
PeerRegisterStep ==
    /\ nops < MaxOps
    /\ \E id \in PeerIds \cup {ServerId}, protocols \in {<<>>, <<ProjectTag>>} :
           RegisterNode(IF id = "n1" THEN "ip1" ELSE "ip2", IF id = ServerId THEN 9002 ELSE 9001,
                        protocols, NoName, id)
    /\ UNCHANGED <<fileVars, commuteVars, hashVars, syncVars, netVars>>

\* the pass begins: _discover_compatible_peers, and _connect_to_new_peers takes
\* list(self.discovered_peers.items())
DiscoverCompatiblePeers ==
    /\ ppc.at = "sleep"
    /\ discovery_running
    /\ npass < MaxPasses
    /\ discovered_peers' = discovered_peers \cup ProjectNodeIds(LoadLedger(disk, now), OwnHash)
    /\ ppc' = [at |-> "connect", peer |-> NoId, todo |-> discovered_peers',
               project_nodes |-> ProjectNodeIds(LoadLedger(disk, now), OwnHash),
               attempted |-> NoPeers, failed |-> NoPeers]
    /\ npass' = npass + 1
    /\ UNCHANGED <<ledgerVars, fileVars, commuteVars, hashVars, syncVars, chanVars, lifeVars,
                   connected_peers, peer_clients, link, hs, fanout, discovery_running,
                   server_protocols>>

\* what Client(host=ip, port=port) and client.connect() come to
ConnectOutcomes == {"constructor raises", "connect raises", "refused", "connected"}

\* a loop without the try: the exception of a peer leaves _connect_to_new_peers
\* and the pass
ConnectToPeerUnguarded(peer_id, outcome) ==
    /\ ppc.at = "connect"
    /\ peer_id \in ppc.todo
    /\ IF peer_id \notin connected_peers /\ outcome = "connected"
       THEN /\ peer_clients' = peer_clients \cup {peer_id}
            /\ connected_peers' = connected_peers \cup {peer_id}
            /\ link' = [link EXCEPT ![peer_id] = TRUE]
            /\ hs' = [hs EXCEPT ![peer_id] = "none"]
            /\ ppc' = [ppc EXCEPT !.at = "handshake", !.peer = peer_id,
                                  !.todo = ppc.todo \ {peer_id},
                                  !.attempted = ppc.attempted \cup {peer_id}]
       ELSE /\ ppc' = IF peer_id \in connected_peers
                      THEN [ppc EXCEPT !.todo = ppc.todo \ {peer_id}]
                      ELSE IF outcome = "refused"
                      THEN [ppc EXCEPT !.todo = ppc.todo \ {peer_id},
                                       !.attempted = ppc.attempted \cup {peer_id},
                                       !.failed = ppc.failed \cup {peer_id}]
                      ELSE Sleeping
            /\ UNCHANGED <<peer_clients, connected_peers, link, hs>>
    /\ UNCHANGED <<ledgerVars, fileVars, commuteVars, hashVars, syncVars, chanVars, lifeVars,
                   discovered_peers, npass, discovery_running, fanout,
                   server_protocols>>

\* one turn of the loop of _connect_to_new_peers, up to the handshake
ConnectToPeer(peer_id, outcome) ==
    /\ ppc.at = "connect"
    /\ peer_id \in ppc.todo
    /\ IF peer_id \notin connected_peers /\ outcome = "connected"
       THEN /\ peer_clients' = peer_clients \cup {peer_id}
            /\ connected_peers' = connected_peers \cup {peer_id}
            /\ link' = [link EXCEPT ![peer_id] = TRUE]
            /\ hs' = [hs EXCEPT ![peer_id] = "none"]
            /\ ppc' = [ppc EXCEPT !.at = "handshake", !.peer = peer_id,
                                  !.todo = ppc.todo \ {peer_id},
                                  !.attempted = ppc.attempted \cup {peer_id}]
       ELSE /\ ppc' = IF peer_id \in connected_peers
                      THEN [ppc EXCEPT !.todo = ppc.todo \ {peer_id}]
                      ELSE [ppc EXCEPT !.todo = ppc.todo \ {peer_id},
                                       !.attempted = ppc.attempted \cup {peer_id},
                                       !.failed = ppc.failed \cup {peer_id}]
            /\ UNCHANGED <<peer_clients, connected_peers, link, hs>>
    /\ UNCHANGED <<ledgerVars, fileVars, commuteVars, hashVars, syncVars, chanVars, lifeVars,
                   discovered_peers, npass, discovery_running, fanout,
                   server_protocols>>

\* what client.send and client.receive come to in _send_peer_handshake
HandshakeOutcomes == {"ack", "no response", "other response", "raises"}

\* _send_peer_handshake(client, peer_id): its result is what it returns, and the
\* caller does not look at it
SendPeerHandshake(peer_id, outcome, connected) ==
    /\ ppc.at = "handshake"
    /\ ppc.peer = peer_id
    /\ hs' = [hs EXCEPT ![peer_id] = IF outcome = "ack" THEN "ack" ELSE "failed"]
    /\ link' = [link EXCEPT ![peer_id] = IF outcome = "raises" THEN connected ELSE link[peer_id]]
    /\ ppc' = [ppc EXCEPT !.at = "connect", !.peer = NoId,
                          !.failed = IF outcome = "ack" THEN ppc.failed
                                     ELSE ppc.failed \cup {peer_id}]
    /\ UNCHANGED <<ledgerVars, fileVars, commuteVars, hashVars, syncVars, chanVars, lifeVars,
                   discovered_peers, connected_peers, peer_clients, npass, discovery_running,
                   fanout,
                   server_protocols>>

\* a pass that ends without looking at the clients
CheckPeerConnectionsSkipped ==
    /\ ppc.at = "connect"
    /\ ppc.todo = NoPeers
    /\ ppc' = Sleeping
    /\ UNCHANGED <<ledgerVars, fileVars, commuteVars, hashVars, syncVars, chanVars, lifeVars,
                   discovered_peers, connected_peers, peer_clients, link, hs, npass,
                   discovery_running, fanout,
                   server_protocols>>

\* _check_peer_connections, with _disconnect_peer for every client that is not
\* connected; the pass ends
CheckPeerConnections ==
    /\ ppc.at = "connect"
    /\ ppc.todo = NoPeers
    /\ LET lost == {p \in peer_clients : ~link[p]}
       IN  /\ peer_clients' = peer_clients \ lost
           /\ connected_peers' = connected_peers \ lost
    /\ ppc' = Sleeping
    /\ UNCHANGED <<ledgerVars, fileVars, commuteVars, hashVars, syncVars, chanVars, lifeVars,
                   discovered_peers, link, hs, npass, discovery_running, fanout,
                   server_protocols>>

\* ServerPeer.stop: _disconnect_peer for every client of
\* list(self.peer_clients.items()); the join gives the thread one second and
\* returns whether or not the thread has ended
ServerPeerStop ==
    /\ discovery_running
    /\ discovery_running' = FALSE
    /\ peer_clients' = NoPeers
    /\ connected_peers' = connected_peers \ peer_clients
    /\ link' = [p \in PeerIds |-> IF p \in peer_clients THEN FALSE ELSE link[p]]
    /\ UNCHANGED <<ledgerVars, fileVars, commuteVars, hashVars, syncVars, chanVars, lifeVars,
                   discovered_peers, hs, ppc, npass, fanout, server_protocols>>

\* _peer_discovery_thread finds `while self.discovery_running` false and returns
PeerDiscoveryExit ==
    /\ ppc.at = "sleep"
    /\ ~discovery_running
    /\ ppc' = [Sleeping EXCEPT !.at = "exited"]
    /\ UNCHANGED <<ledgerVars, fileVars, commuteVars, hashVars, syncVars, chanVars, lifeVars,
                   discovered_peers, connected_peers, peer_clients, link, hs, npass, fanout,
                   discovery_running, server_protocols>>

\* the transport of a peer's client is closed
LinkLost(peer_id) ==
    /\ peer_id \in peer_clients
    /\ link[peer_id]
    /\ link' = [link EXCEPT ![peer_id] = FALSE]
    /\ UNCHANGED <<ledgerVars, fileVars, commuteVars, hashVars, syncVars, chanVars, lifeVars,
                   discovered_peers, connected_peers, peer_clients, hs, ppc, npass,
                   discovery_running, fanout,
                   server_protocols>>

\* what client.send(message) comes to: True, False with the client still
\* connected, False with the client disconnected, or an exception
SendOutcomes == {"sent", "not sent", "not sent, closed", "raises"}

SentCountAttempts(outcomes) == Cardinality(DOMAIN outcomes)

\* sent_count: one for every client whose send returned True
SentCount(outcomes) == Cardinality({p \in DOMAIN outcomes : outcomes[p] = "sent"})

\* broadcast_to_peers(message): one send to every client of
\* list(self.peer_clients.items()), an exception being logged
BroadcastToPeers(outcomes) ==
    /\ DOMAIN outcomes = peer_clients
    /\ fanout' = [called |-> TRUE, clients |-> DOMAIN outcomes, connected |-> connected_peers,
                  succeeded |-> {p \in DOMAIN outcomes : outcomes[p] = "sent"},
                  sent_count |-> SentCount(outcomes)]
    /\ link' = [p \in PeerIds |->
                  IF p \notin DOMAIN outcomes \/ outcomes[p] \in {"not sent", "raises"}
                  THEN link[p]
                  ELSE outcomes[p] = "sent"]
    /\ UNCHANGED <<ledgerVars, fileVars, commuteVars, hashVars, syncVars, chanVars, lifeVars,
                   discovered_peers, connected_peers, peer_clients, hs, ppc, npass,
                   discovery_running,
                   server_protocols>>

BroadcastToPeersStep == \E outcomes \in [peer_clients -> SendOutcomes] : BroadcastToPeers(outcomes)

ConnectToPeerStep == \E p \in PeerIds, o \in ConnectOutcomes : ConnectToPeer(p, o)

SendPeerHandshakeStep ==
    \E p \in PeerIds, o \in HandshakeOutcomes, c \in BOOLEAN : SendPeerHandshake(p, o, c)

LinkLostStep == \E p \in PeerIds : LinkLost(p)

----------------------------------------------------------------------------
(* The channels that receive broadcast datagrams: BroadcastManager, with the    *)
(* handlers of broadcast_handlers.py, and NodeDiscovery                          *)

\* the node id of the receiving channel
OwnNodeId == "self"

\* message.get('hash') of a message without hash
NoHash == ""

NoNodes == {}

SyncedLedger == RemoteLedger(<<RemoteNode("n3", 1)>>, <<>>, NoVersion)

Datagram(type, node_id, hash, has_ledger) ==
    [form |-> "object", type |-> type, node_id |-> node_id, hash |-> hash, ip |-> "ip9",
     port |-> 9009, has_ledger |-> has_ledger, ledger |-> SyncedLedger]

\* a payload json.loads(data.decode('utf-8')) does not turn into a dict
Malformed(form) == [Datagram("unknown", NoId, NoHash, FALSE) EXCEPT !.form = form]

\* bytes that are not JSON, bytes that are not UTF-8, JSON that is not an object
MalformedForms == {"not json", "not utf-8", "not an object"}

\* a payload whose entry for n1 has an "updated" that datetime.fromisoformat rejects
UnmergeableLedger == RemoteLedger(<<RemoteNode("n1", Bad)>>, <<>>, NoVersion)

Datagrams ==
    {Datagram(type, id, h, FALSE) :
        type \in {"node_discovery", "unknown"}, id \in {"n1", OwnNodeId},
        h \in {OwnHash, "h2", NoHash}}
    \cup {Datagram("ledger_sync", id, h, l) :
            id \in {"n1", OwnNodeId}, h \in {OwnHash, "h2", NoHash}, l \in BOOLEAN}
    \cup {Datagram(type, NoId, OwnHash, FALSE) : type \in {"node_discovery", "unknown"}}
    \cup {Malformed(f) : f \in MalformedForms}
    \cup {[Datagram("ledger_sync", "n1", OwnHash, TRUE) EXCEPT !.ledger = UnmergeableLedger]}

NeverReturned ==
    [channel |-> "none", max_age_minutes |-> 0, at |-> 0, cache |-> NoNodes,
     result |-> NoNodes, raised |-> FALSE]

\* what self.on_node_discovered or self.on_ledger_received is: None, a function
\* that returns, a function that raises
CallbackOutcomes == {"none", "returns", "raises"}

NoArg == [kind |-> "none"]

\* no callback was invoked
NoCallback == [on |-> "none", calls |-> 0, arg |-> NoArg, cache |-> NoNodes, disk |-> NoFile]

\* `if self.on_...: try: self.on_...(arg) except Exception: logger.error(...)`, the
\* cache and the ledger file being these when it is invoked
Callback(cb, arg, cache, d) ==
    IF cb = "none" THEN NoCallback
    ELSE [on |-> cb, calls |-> 1, arg |-> arg, cache |-> cache, disk |-> d]

LedgerCallbackAlways(cb, m, cache) == Callback(cb, m.disk.doc, cache, m.disk)

\* _handle_ledger_sync after merge_ledgers, m being what the merge came to: an
\* exception of merge_ledgers skips the callback
LedgerCallback(cb, m, cache) ==
    IF m.raised THEN [NoCallback EXCEPT !.on = cb]
    ELSE Callback(cb, m.disk.doc, cache, m.disk)

\* a datagram a channel receives in this state, and the callback its handler invokes
Receipt(channel, message, callback) ==
    [channel |-> channel, message |-> message, disk |-> disk,
     discovered_nodes |-> discovered_nodes, nd_discovered_nodes |-> nd_discovered_nodes,
     callback |-> callback]

InitChannel ==
    /\ discovered_nodes = NoNodes
    /\ nd_discovered_nodes = NoNodes
    /\ received = [channel |-> "none", message |-> Datagram("unknown", OwnNodeId, NoHash, FALSE),
                   disk |-> NoFile, discovered_nodes |-> NoNodes,
                   nd_discovered_nodes |-> NoNodes, callback |-> NoCallback]
    /\ returned = NeverReturned

\* `if message.get('node_id') == self.node_id: continue`
IsOwnMessageNever(message, node_id) == FALSE

IsOwnMessage(message, node_id) == message.node_id = node_id

\* cache[node_id] = info, the cache being the set of its values
CachePut(cache, info) == {c \in cache : c.id # info.id} \cup {info}

\* _handle_discovery_message: the cache and the ledger file afterwards. A hash
\* that differs returns early (for a missing hash, node_hash[:8] raises, and the
\* listener logs the exception)
HandleDiscoveryMessage(cache, d, message, src_hash, t, uuid) ==
    IF message.hash # src_hash
    THEN [cache |-> cache, disk |-> d]
    ELSE [cache |-> CachePut(cache, [id |-> message.node_id, ip |-> message.ip,
                                     port |-> message.port, hash |-> message.hash,
                                     last_seen |-> t]),
          disk |-> SaveLedger(RegisterNodeLedger(LoadLedger(d, t), message.ip, message.port,
                                                 <<>>, DefaultNodeName(message.ip, message.port),
                                                 IF message.node_id = NoId THEN uuid
                                                 ELSE message.node_id, t), t)]

\* the handler calls register_node without an id, which draws a uuid
DrawsUuid(message) ==
    /\ message.form = "object"
    /\ message.node_id = NoId
    /\ message.type = "node_discovery"
    /\ message.hash = OwnHash

\* one datagram in BroadcastManager._listen_for_broadcasts; every exception
\* raised while the datagram is decoded or handled is caught and logged
ManagerReceive(message) ==
    /\ nops < MaxOps
    /\ manager.running /\ manager.listener_thread
    /\ DrawsUuid(message) => uuids < MaxUuids
    /\ \E cb \in CallbackOutcomes :
         IF message.form # "object" \/ IsOwnMessage(message, OwnNodeId)
         THEN /\ received' = Receipt("BroadcastManager", message, NoCallback)
              /\ UNCHANGED <<disk, discovered_nodes>>
         ELSE IF message.type = "node_discovery"
         THEN LET res == HandleDiscoveryMessage(discovered_nodes, disk, message, OwnHash, now,
                                                UuidPool[uuids + 1])
                  info == CHOOSE c \in res.cache : c.id = message.node_id
              IN  /\ discovered_nodes' = res.cache
                  /\ disk' = res.disk
                  /\ received' =
                        Receipt("BroadcastManager", message,
                                IF message.hash = OwnHash
                                THEN Callback(cb, info, res.cache, res.disk)
                                ELSE NoCallback)
         ELSE IF message.type = "ledger_sync"
         THEN /\ disk' = HandleLedgerSync(disk, message, OwnHash, now)
              /\ received' =
                    Receipt("BroadcastManager", message,
                            IF message.hash = OwnHash /\ message.has_ledger
                            THEN LedgerCallback(cb, MergeInto(disk, LedgerPayload(message), now),
                                                discovered_nodes)
                            ELSE NoCallback)
              /\ UNCHANGED discovered_nodes
         ELSE /\ received' = Receipt("BroadcastManager", message, NoCallback)
              /\ UNCHANGED <<disk, discovered_nodes>>
    /\ nops' = nops + 1
    /\ uuids' = IF DrawsUuid(message) THEN uuids + 1 ELSE uuids
    /\ UNCHANGED <<now, last, fileVars, commuteVars, hashVars, syncVars, peerVars, lifeVars,
                   nd_discovered_nodes, returned>>

\* one datagram in NodeDiscovery._listen_for_broadcasts: json.JSONDecodeError is
\* caught for the datagram, any other exception leaves the loop
DiscoveryReceive(message) ==
    /\ nops < MaxOps
    /\ node_discovery.running /\ node_discovery.discovery_thread
    /\ received' = Receipt("NodeDiscovery", message, NoCallback)
    /\ node_discovery' =
          IF message.form \in {"not utf-8", "not an object"}
          THEN [node_discovery EXCEPT !.discovery_thread = FALSE]
          ELSE node_discovery
    /\ IF /\ message.form = "object"
          /\ ~IsOwnMessage(message, OwnNodeId)
          /\ message.type = "node_discovery"
       THEN nd_discovered_nodes' =
                CachePut(nd_discovered_nodes, [id |-> message.node_id, ip |-> message.ip,
                                               port |-> message.port, hash |-> message.hash,
                                               last_seen |-> now])
       ELSE UNCHANGED nd_discovered_nodes
    /\ nops' = nops + 1
    /\ UNCHANGED <<disk, now, uuids, last, fileVars, commuteVars, hashVars, syncVars, peerVars,
                   discovered_nodes, returned, manager, broadcast_discovery, started, sender,
                   auto>>

ExpiredAtLimit(info, max_age_minutes, t) == t - info.last_seen >= max_age_minutes

\* `current_time - last_seen > max_age`, the unit of time being the minute
Expired(info, max_age_minutes, t) == t - info.last_seen > max_age_minutes

\* the values of max_age_minutes that are passed
MaxAgeMinutes == {0, 1}

\* NodeDiscovery.get_discovered_nodes(max_age_minutes): deletes the old entries
\* of self.discovered_nodes and returns the others
NodeDiscoveryGetDiscoveredNodes(max_age_minutes) ==
    LET kept == {c \in nd_discovered_nodes : ~Expired(c, max_age_minutes, now)}
    IN  /\ nd_discovered_nodes' = kept
        /\ returned' = [channel |-> "NodeDiscovery", max_age_minutes |-> max_age_minutes,
                        at |-> now, cache |-> nd_discovered_nodes, result |-> kept,
                        raised |-> FALSE]
        /\ UNCHANGED <<ledgerVars, fileVars, commuteVars, hashVars, syncVars, peerVars, lifeVars,
                       discovered_nodes, received>>

\* manager.get_discovered_nodes(...): the class body of BroadcastManager binds
\* the name to the module function get_discovered_nodes(max_age_minutes=10) of
\* broadcast_discovery.py, which receives the manager as max_age_minutes and
\* returns {}; a call that passes max_age_minutes raises TypeError
ManagerGetDiscoveredNodes(passes_max_age, max_age_minutes) ==
    /\ returned' = [channel |-> "BroadcastManager", max_age_minutes |-> max_age_minutes,
                    at |-> now, cache |-> discovered_nodes, result |-> NoNodes,
                    raised |-> passes_max_age]
    /\ UNCHANGED <<ledgerVars, fileVars, commuteVars, hashVars, syncVars, peerVars, lifeVars,
                   discovered_nodes, nd_discovered_nodes, received>>

\* the default of max_age_minutes the signature of the function has
DefaultMaxAge == 1

NodeDiscoveryGetDiscoveredNodesStep == \E a \in MaxAgeMinutes : NodeDiscoveryGetDiscoveredNodes(a)

ManagerGetDiscoveredNodesStep ==
    \/ ManagerGetDiscoveredNodes(FALSE, DefaultMaxAge)
    \/ \E a \in MaxAgeMinutes : ManagerGetDiscoveredNodes(TRUE, a)

ManagerReceiveStep == \E m \in Datagrams : ManagerReceive(m)

DiscoveryReceiveStep == \E m \in Datagrams : DiscoveryReceive(m)

----------------------------------------------------------------------------
(* Starting and stopping the three broadcast channels.  A socket is "none"  *)
(* (self.sock is None or closed), "unbound" or "bound"; a thread is TRUE    *)
(* while its loop has not returned.                                         *)

NotStarted == [channel |-> "none", refused |-> FALSE, ret |-> FALSE, outcome |-> "none"]

\* no _send_broadcast_with_retry has run yet.  bursts counts the calls of
\* _send_broadcast_thread, discovered_after is the count the last check read,
\* unheeded is whether a burst was sent while running was False
SenderIdle ==
    [at |-> "idle", retry_count |-> 0, current_retry |-> 0, discovered_before |-> 0,
     discovered_after |-> 0, bursts |-> 0, result |-> "none", unheeded |-> FALSE]

\* _auto_discovery_thread before its first cycle, interactive and
\* iteration_callback (whether it is not None) having their defaults; gate is the
\* number of calls of the callback between the last two cycles, after is how the
\* cycle before the last one ended
AutoIdle ==
    [at |-> "head", interactive |-> FALSE, iteration_callback |-> FALSE, cycles |-> 0,
     asked_since |-> 0, gate |-> 0, outcome |-> "none", after |-> "none", answer |-> "none"]

\* the state the constructors leave; BroadcastDiscovery.__init__ creates its socket
InitLife ==
    /\ manager = [running |-> FALSE, sock |-> "none", listener_thread |-> FALSE, listeners |-> 0]
    /\ node_discovery = [running |-> FALSE, sock |-> "none", discovery_thread |-> FALSE,
                         broadcast_thread |-> FALSE]
    /\ broadcast_discovery = [running |-> FALSE, sock |-> "unbound", receiver_thread |-> FALSE,
                              auto_discovery_thread |-> FALSE, discovered_nodes |-> 0]
    /\ started = NotStarted
    /\ sender = SenderIdle
    /\ auto = AutoIdle

StartOutcomes == {"socket raises", "bind fails", "thread raises", "ok"}

\* the threads in _listen_for_broadcasts that one BroadcastManager is followed for
MaxListeners == 2

\* BroadcastManager.start; listeners counts the threads that are in
\* _listen_for_broadcasts, listener_thread is whether there is one
ManagerStart(outcome) ==
    /\ (~manager.running /\ outcome = "ok") => manager.listeners < MaxListeners
    /\ started' = [channel |-> "BroadcastManager", refused |-> manager.running,
                   ret |-> ~manager.running /\ outcome = "ok",
                   outcome |-> outcome]
    /\ manager' =
         IF manager.running THEN manager
         ELSE IF outcome = "bind fails" THEN [manager EXCEPT !.sock = "unbound"]
         ELSE IF outcome = "ok"
         THEN [running |-> TRUE, sock |-> "bound", listener_thread |-> TRUE,
               listeners |-> manager.listeners + 1]
         ELSE [manager EXCEPT !.sock = "none", !.running = FALSE]
    /\ UNCHANGED <<ledgerVars, fileVars, commuteVars, hashVars, syncVars, peerVars, chanVars,
                   node_discovery, broadcast_discovery, sender,
                   auto>>

\* BroadcastManager.stop
ManagerStop ==
    /\ manager' = IF manager.running
                  THEN [manager EXCEPT !.running = FALSE, !.sock = "none"]
                  ELSE manager
    /\ UNCHANGED <<ledgerVars, fileVars, commuteVars, hashVars, syncVars, peerVars, chanVars,
                   node_discovery, broadcast_discovery, started, sender,
                   auto>>

\* a thread in BroadcastManager._listen_for_broadcasts finds `while self.running`
\* false, or, a stop having closed the socket it was reading, leaves the loop
\* by `break`
ManagerListenerExit ==
    /\ manager.listeners > 0
    /\ ~manager.running \/ manager.listeners > 1
    /\ manager' = [manager EXCEPT !.listeners = @ - 1,
                                  !.listener_thread = manager.listeners > 1]
    /\ UNCHANGED <<ledgerVars, fileVars, commuteVars, hashVars, syncVars, peerVars, chanVars,
                   node_discovery, broadcast_discovery, started, sender,
                   auto>>

NodeDiscoveryStartOutcomes == StartOutcomes \cup {"second thread raises"}

\* NodeDiscovery.start_discovery: running is set before the bind, a bind that
\* fails is logged and the threads are started all the same
NodeDiscoveryStart(outcome) ==
    /\ started' = [channel |-> "NodeDiscovery", refused |-> node_discovery.running,
                   ret |-> ~node_discovery.running /\ outcome \in {"ok", "bind fails"},
                   outcome |-> outcome]
    /\ node_discovery' =
         IF node_discovery.running THEN node_discovery
         ELSE IF outcome \in {"ok", "bind fails"}
         THEN [running |-> TRUE, sock |-> IF outcome = "ok" THEN "bound" ELSE "unbound",
               discovery_thread |-> TRUE, broadcast_thread |-> TRUE]
         ELSE IF outcome = "second thread raises"
         THEN [node_discovery EXCEPT !.running = FALSE, !.sock = "none",
                                     !.discovery_thread = TRUE]
         ELSE [node_discovery EXCEPT !.running = FALSE, !.sock = "none"]
    /\ UNCHANGED <<ledgerVars, fileVars, commuteVars, hashVars, syncVars, peerVars, chanVars,
                   manager, broadcast_discovery, sender,
                   auto>>

\* NodeDiscovery.stop_discovery
NodeDiscoveryStop ==
    /\ node_discovery' = IF node_discovery.running
                         THEN [node_discovery EXCEPT !.running = FALSE, !.sock = "none"]
                         ELSE node_discovery
    /\ UNCHANGED <<ledgerVars, fileVars, commuteVars, hashVars, syncVars, peerVars, chanVars,
                   manager, broadcast_discovery, started, sender,
                   auto>>

\* _listen_for_broadcasts or _broadcast_presence of NodeDiscovery finds
\* `while self.running` false
NodeDiscoveryThreadExit ==
    /\ ~node_discovery.running
    /\ node_discovery.discovery_thread \/ node_discovery.broadcast_thread
    /\ \/ /\ node_discovery.discovery_thread
          /\ node_discovery' = [node_discovery EXCEPT !.discovery_thread = FALSE]
       \/ /\ node_discovery.broadcast_thread
          /\ node_discovery' = [node_discovery EXCEPT !.broadcast_thread = FALSE]
    /\ UNCHANGED <<ledgerVars, fileVars, commuteVars, hashVars, syncVars, peerVars, chanVars,
                   manager, broadcast_discovery, started, sender,
                   auto>>

AutoDiscoveryIntervals == {0, 300}

\* BroadcastDiscovery.start: binds the socket the constructor made, sets
\* running, then builds the receiver thread from self._receive_broadcasts_thread,
\* an attribute the class does not have
BroadcastDiscoveryStart(listen, auto_discovery_interval, outcome) ==
    LET bound == outcome = "ok" /\ broadcast_discovery.sock = "unbound"
    IN
    /\ started' = [channel |-> "BroadcastDiscovery", refused |-> broadcast_discovery.running,
                   ret |-> ~broadcast_discovery.running /\ bound /\ ~listen,
                   outcome |-> outcome]
    /\ broadcast_discovery' =
         IF broadcast_discovery.running \/ ~bound THEN broadcast_discovery
         ELSE IF listen
         THEN [broadcast_discovery EXCEPT !.sock = "bound", !.running = TRUE]
         ELSE [broadcast_discovery EXCEPT !.sock = "bound", !.running = TRUE,
                   !.auto_discovery_thread = auto_discovery_interval > 0]
    /\ UNCHANGED <<ledgerVars, fileVars, commuteVars, hashVars, syncVars, peerVars, chanVars,
                   manager, node_discovery, sender,
                   auto>>

\* _auto_discovery_thread in interactive mode, the callback answering no:
\* `self.running = False; break`
AutoDiscoveryStopped ==
    /\ broadcast_discovery.auto_discovery_thread
    /\ broadcast_discovery.running
    /\ broadcast_discovery' = [broadcast_discovery EXCEPT !.running = FALSE,
                                                          !.auto_discovery_thread = FALSE]
    /\ UNCHANGED <<ledgerVars, fileVars, commuteVars, hashVars, syncVars, peerVars, chanVars,
                   manager, node_discovery, started, sender,
                   auto>>

AfterAnswerAlways(answer) == "sleeping"

\* `if not should_continue: self.running = False; break`, should_continue being
\* False when the callback raised
AfterAnswer(answer) == IF answer = "yes" THEN "sleeping" ELSE "stopped"

\* _auto_discovery_thread, one pass of `while self.running` up to the callback:
\* send_discovery_broadcast(ip, port) starts a sender thread with the default
\* retry_count, or raises, which the outer except branch logs
AutoDiscoveryCycle(outcome) ==
    /\ broadcast_discovery.auto_discovery_thread
    /\ broadcast_discovery.running
    /\ auto.at = "head"
    /\ auto.cycles < MaxCycles
    /\ auto' = [auto EXCEPT !.cycles = @ + 1,
                            !.gate = auto.asked_since,
                            !.asked_since = 0,
                            !.after = auto.outcome,
                            !.outcome = outcome,
                            !.at = IF outcome = "raises" THEN "error sleep"
                                   ELSE IF auto.interactive /\ auto.iteration_callback
                                   THEN "asking"
                                   ELSE "sleeping"]
    /\ sender' = IF outcome = "raises" THEN sender
                 ELSE [SenderIdle EXCEPT !.at = "burst", !.retry_count = MaxRetry,
                           !.discovered_before = broadcast_discovery.discovered_nodes,
                           !.discovered_after = broadcast_discovery.discovered_nodes]
    /\ UNCHANGED <<ledgerVars, fileVars, commuteVars, hashVars, syncVars, peerVars, chanVars,
                   manager, node_discovery, broadcast_discovery, started>>

\* self.iteration_callback("Continue to iterate?") returns a true value, a false
\* value, or raises
AutoDiscoveryAsk(answer) ==
    /\ auto.at = "asking"
    /\ auto' = [auto EXCEPT !.asked_since = @ + 1, !.answer = answer,
                            !.at = AfterAnswer(answer)]
    /\ broadcast_discovery' =
          IF AfterAnswer(answer) = "stopped"
          THEN [broadcast_discovery EXCEPT !.running = FALSE, !.auto_discovery_thread = FALSE]
          ELSE broadcast_discovery
    /\ UNCHANGED <<ledgerVars, fileVars, commuteVars, hashVars, syncVars, peerVars, chanVars,
                   manager, node_discovery, started, sender>>

\* time.sleep(self.auto_discovery_interval), or time.sleep(60) after an exception, ends
AutoDiscoveryWake ==
    /\ auto.at \in {"sleeping", "error sleep"}
    /\ auto' = [auto EXCEPT !.at = "head"]
    /\ UNCHANGED <<ledgerVars, fileVars, commuteVars, hashVars, syncVars, peerVars, chanVars,
                   manager, node_discovery, broadcast_discovery, started, sender>>

AutoDiscoveryStep ==
    \/ \E o \in {"returns", "raises"} : AutoDiscoveryCycle(o)
    \/ \E a \in {"yes", "no", "raises"} : AutoDiscoveryAsk(a)
    \/ AutoDiscoveryWake

----------------------------------------------------------------------------
(* BroadcastDiscovery.send_discovery_broadcast and its sender thread *)

AnnouncerId == "nA"

\* the message send_discovery_broadcast builds, as a receiver reads it with
\* message.get: the type is 'discovery', the hash is under 'src_hash' and the
\* address under 'source_ip' and 'source_port', so 'hash', 'ip' and 'port' are absent
\* (the handler takes the ip from the sender's address)
Announcement(source_ip, source_port) ==
    [Datagram("discovery", AnnouncerId, NoHash, FALSE) EXCEPT !.ip = source_ip, !.port = 0]

\* send_discovery_broadcast: starts the thread that runs _send_broadcast_with_retry
SendDiscoveryBroadcast(retry_count) ==
    /\ sender.at \in {"idle", "done"}
    /\ sender' = IF broadcast_discovery.running
                 THEN [SenderIdle EXCEPT !.at = "burst", !.retry_count = retry_count,
                           !.discovered_before = broadcast_discovery.discovered_nodes,
                           !.discovered_after = broadcast_discovery.discovered_nodes]
                 ELSE sender
    /\ UNCHANGED <<ledgerVars, fileVars, commuteVars, hashVars, syncVars, peerVars, chanVars,
                   manager, node_discovery, broadcast_discovery, started,
                   auto>>

RetryOnceMore(sd) ==
    [sd EXCEPT !.current_retry = @ + 1,
               !.at = IF sd.current_retry <= sd.retry_count THEN "burst" ELSE "done",
               !.result = IF sd.current_retry <= sd.retry_count THEN "none"
                          ELSE "retry limit reached"]

\* what the sender does after a burst without result, or after an exception
Retry(sd) ==
    [sd EXCEPT !.current_retry = @ + 1,
               !.at = IF sd.current_retry + 1 <= sd.retry_count THEN "burst" ELSE "done",
               !.result = IF sd.current_retry + 1 <= sd.retry_count THEN "none"
                          ELSE "retry limit reached"]

\* _send_broadcast_with_retry: `while current_retry <= retry_count`, one call of
\* _send_broadcast_thread, which sends the datagrams of one burst; an exception
\* goes to the except branch, which counts a retry
SenderBurst(outcome) ==
    /\ sender.at = "burst"
    /\ sender' =
         LET sent == [sender EXCEPT !.bursts = @ + 1,
                                    !.unheeded = @ \/ ~broadcast_discovery.running]
         IN  IF outcome = "raises" THEN Retry(sent) ELSE [sent EXCEPT !.at = "check"]
    /\ UNCHANGED <<ledgerVars, fileVars, commuteVars, hashVars, syncVars, peerVars, chanVars,
                   manager, node_discovery, broadcast_discovery, started,
                   auto>>

\* _send_broadcast_with_retry after time.sleep(2.0): returns if
\* len(self.discovered_nodes) has grown, else counts a retry
SenderCheck ==
    /\ sender.at = "check"
    /\ sender' =
         LET read == [sender EXCEPT !.discovered_after = broadcast_discovery.discovered_nodes]
         IN  IF read.discovered_after > read.discovered_before
             THEN [read EXCEPT !.at = "done", !.result = "discovery successful"]
             ELSE Retry(read)
    /\ UNCHANGED <<ledgerVars, fileVars, commuteVars, hashVars, syncVars, peerVars, chanVars,
                   manager, node_discovery, broadcast_discovery, started,
                   auto>>

\* an entry is added to BroadcastDiscovery.discovered_nodes (no method of the
\* class does it: the dictionary is written from outside)
NodeFound ==
    /\ broadcast_discovery.discovered_nodes < MaxFound
    /\ broadcast_discovery' = [broadcast_discovery EXCEPT !.discovered_nodes = @ + 1]
    /\ UNCHANGED <<ledgerVars, fileVars, commuteVars, hashVars, syncVars, peerVars, chanVars,
                   manager, node_discovery, started, sender,
                   auto>>

\* a datagram of a burst reaches a channel that listens on the port
DeliverAnnouncement ==
    /\ sender.bursts > 0
    /\ \E a \in Addrs :
          \/ ManagerReceive(Announcement(a[1], a[2]))
          \/ DiscoveryReceive(Announcement(a[1], a[2]))

SendDiscoveryBroadcastStep == \E n \in 0..MaxRetry : SendDiscoveryBroadcast(n)

SenderStep ==
    \/ \E o \in {"sent", "raises"} : SenderBurst(o)
    \/ SenderCheck

ManagerStartStep == \E o \in StartOutcomes : ManagerStart(o)

NodeDiscoveryStartStep == \E o \in NodeDiscoveryStartOutcomes : NodeDiscoveryStart(o)

BroadcastDiscoveryStartStep ==
    \E listen \in BOOLEAN, i \in AutoDiscoveryIntervals, o \in {"bind fails", "ok"} :
        BroadcastDiscoveryStart(listen, i, o)

----------------------------------------------------------------------------
(* utils/hash_utils.py: calculate_file_hash and calculate_src_directory_hash.   *)
(* A file is the rank of its relative path in sorted order; file 0 is an        *)
(* __init__.py. A content is one byte, or NoAccess for a file that cannot be     *)
(* read. A hash is a string, and different contents have different hashes.       *)

FilePaths == 0..MaxFiles

\* exclude_files: {'__init__.py'}
ExcludedFiles == {0}

Bytes == {0, 1}

NoAccess == 2

Trees == [FilePaths -> Bytes \cup {NoAccess}]

Processes == {"p1", "p2"}

NotCached == "not cached"

\* the orders in which src_path.rglob can yield the files
Enumerations ==
    {order \in [1..(MaxFiles + 1) -> FilePaths] : \A p \in FilePaths : \E i \in DOMAIN order : order[i] = p}

NeverHashed == [called |-> FALSE, combined_hash |-> "", file_hashes |-> <<>>, tree |-> <<>>]

InitHash ==
    /\ tree = [p \in FilePaths |-> 0]
    /\ file_hash_cache = [proc \in Processes |-> [p \in FilePaths |-> NotCached]]
    /\ hashed = [proc \in Processes |-> NeverHashed]

\* the body of calculate_file_hash: hexdigest of the bytes, "" after IOError or OSError
FileHash(content) == IF content = NoAccess THEN "" ELSE "x" \o ToString(content)

\* calculate_file_hash under @lru_cache(maxsize=128), the key being the path (and
\* the algorithm): a cached result is returned without the file being read
CalculateFileHash(cache, t, file_path) ==
    IF cache[file_path] # NotCached THEN cache[file_path] ELSE FileHash(t[file_path])

RECURSIVE Join(_)
\* ''.join(...)
Join(strings) == IF strings = <<>> THEN "" ELSE Head(strings) \o Join(Tail(strings))

\* the final hash, of combined_hash.encode('utf-8')
FinalHash(combined) == "X(" \o combined \o ")"

HashesOf(file_hashes) == [i \in DOMAIN file_hashes |-> file_hashes[i].hash]

CombinedHashUnsorted(file_hashes) == FinalHash(Join(HashesOf(file_hashes)))

\* file_hashes is a dict, here the list of its items in insertion order:
\* sorted(file_hashes.keys()), the hashes joined in that order, and the final hash
CombinedHash(file_hashes) ==
    LET n == Len(file_hashes)
        sorted_paths == CHOOSE s \in [1..n -> {file_hashes[i].path : i \in 1..n}] :
                            \A i, j \in 1..n : i < j => s[i] < s[j]
        At(path) == CHOOSE i \in 1..n : file_hashes[i].path = path
    IN  FinalHash(Join([i \in 1..n |-> file_hashes[At(sorted_paths[i])].hash]))

\* calculate_src_directory_hash() in a process, rglob yielding the files in this order
CalculateSrcDirectoryHash(proc, order) ==
    LET Target(p) == p \notin ExcludedFiles
        target_files == SelectSeq(order, Target)
        cache == file_hash_cache[proc]
        Hashed(p) == CalculateFileHash(cache, tree, p) # ""
        found == SelectSeq(target_files, Hashed)
        file_hashes == [i \in DOMAIN found |->
                           [path |-> found[i], hash |-> CalculateFileHash(cache, tree, found[i])]]
    IN  /\ file_hash_cache' =
              [file_hash_cache EXCEPT ![proc] =
                  [p \in FilePaths |-> IF Target(p) THEN CalculateFileHash(cache, tree, p)
                                       ELSE cache[p]]]
        /\ hashed' = [hashed EXCEPT ![proc] =
                         [called |-> TRUE, combined_hash |-> CombinedHash(file_hashes),
                          file_hashes |-> file_hashes, tree |-> tree]]
        /\ UNCHANGED <<ledgerVars, fileVars, commuteVars, syncVars, netVars, tree>>

\* a file of the src directory is written: its content changes
WriteSrcFile(file_path, content) ==
    /\ content # tree[file_path]
    /\ tree' = [tree EXCEPT ![file_path] = content]
    /\ UNCHANGED <<ledgerVars, fileVars, commuteVars, syncVars, netVars, file_hash_cache, hashed>>

CalculateSrcDirectoryHashStep ==
    \E proc \in Processes, order \in Enumerations : CalculateSrcDirectoryHash(proc, order)

WriteSrcFileStep == \E p \in FilePaths, c \in Bytes : WriteSrcFile(p, c)

----------------------------------------------------------------------------
(* Specifications *)

InitCommuteIdle ==
    /\ remA = RemoteLedger(<<>>, <<>>, NoVersion)
    /\ remB = RemoteLedger(<<>>, <<>>, NoVersion)
    /\ diskAB = NoFile
    /\ diskBA = NoFile
    /\ cphase = 0
    /\ craised = FALSE

InitSyncIdle ==
    /\ store = <<>>
    /\ nwrites = 0
    /\ synced = FALSE

InitCommute ==
    /\ InitLedger
    /\ InitFile
    /\ InitSyncIdle
    /\ InitPeer
    /\ InitHash
    /\ InitChannel
    /\ InitLife
    /\ remA \in CommuteRemotes("A")
    /\ remB \in CommuteRemotes("B")
    /\ diskAB = NoFile
    /\ diskBA = NoFile
    /\ cphase = 0
    /\ craised = FALSE

InitSync ==
    /\ InitLedger
    /\ InitFile
    /\ InitCommuteIdle
    /\ InitPeer
    /\ InitHash
    /\ InitChannel
    /\ InitLife
    /\ store = [h \in Hosts |-> NoFile]
    /\ nwrites = 0
    /\ synced = FALSE

Init ==
    /\ InitLedger
    /\ InitFile
    /\ InitCommuteIdle
    /\ InitSyncIdle
    /\ InitPeer
    /\ InitHash
    /\ InitChannel
    /\ InitLife

\* a ledger file that merge_ledgers has written from the ledger of another node
InitMerged ==
    /\ disk \in {MergeInto(NoFile, r, 1).disk : r \in RemoteLedgers}
    /\ now = 1
    /\ nops = 0
    /\ uuids = 0
    /\ last = LastNone
    /\ InitFile
    /\ InitCommuteIdle
    /\ InitSyncIdle
    /\ InitPeer
    /\ InitHash
    /\ InitChannel
    /\ InitLife

\* both receiving channels after a start that returned True
InitListening ==
    /\ InitLedger
    /\ InitFile
    /\ InitCommuteIdle
    /\ InitSyncIdle
    /\ InitPeer
    /\ InitHash
    /\ InitChannel
    /\ manager = [running |-> TRUE, sock |-> "bound", listener_thread |-> TRUE, listeners |-> 1]
    /\ node_discovery = [running |-> TRUE, sock |-> "bound", discovery_thread |-> TRUE,
                         broadcast_thread |-> TRUE]
    /\ broadcast_discovery = [running |-> FALSE, sock |-> "unbound", receiver_thread |-> FALSE,
                              auto_discovery_thread |-> FALSE, discovered_nodes |-> 0]
    /\ started = NotStarted
    /\ sender = SenderIdle
    /\ auto = AutoIdle

NextLedger ==
    \/ RegisterNodeStep
    \/ RegisterProtocolStep
    \/ MergeLedgersStep
    \/ CleanInactiveNodesStep
    \/ TickStep

\* every ledger operation, in any order
SpecLedger == Init /\ [][NextLedger]_vars

NextLoad ==
    \/ LoadLedgerStep
    \/ GetNodeByIdStep
    \/ RegisterSoundStep
    \/ FileReplacedStep
    \/ TickStep

\* load_ledger and what is built on it, on a ledger file that may be damaged
SpecLoad == Init /\ [][NextLoad]_vars

NextProtocol ==
    \/ RegisterProtocolOnlyStep
    \/ TickStep

\* register_protocol calls only, from the empty ledger
SpecProtocol == Init /\ [][NextProtocol]_vars

NextRegister ==
    \/ RegisterOnlyStep
    \/ TickStep

\* register_node calls only, from the empty ledger
SpecRegister == Init /\ [][NextRegister]_vars

NextFile ==
    \/ ThreadRegisterNodeStep
    \/ ThreadSaveOpenStep
    \/ ThreadSaveWriteStep
    \/ ThreadLoadStep
    \/ TickStep

\* register_node and load_ledger running in two threads
SpecFile == Init /\ [][NextFile]_vars

NextCommute ==
    \/ CommuteLocalStep
    \/ CommuteFirstAB
    \/ CommuteSecondAB
    \/ CommuteFirstBA
    \/ CommuteSecondBA
    \/ TickStep

\* one local ledger, two remote ledgers, merged in both orders
SpecCommute == InitCommute /\ [][NextCommute]_vars

NextSync ==
    \/ SyncRegisterNodeStep
    \/ SyncRegisterProtocolStep
    \/ SyncCleanInactiveNodesStep
    \/ ExchangeStep
    \/ TickStep

\* hosts that write locally a bounded number of times and keep exchanging their
\* ledgers: an exchange that would change a ledger eventually happens
SpecSync ==
    /\ InitSync
    /\ [][NextSync]_vars
    /\ \A i \in Hosts : \A j \in Hosts \ {i} : WF_vars(Exchange(i, j))

NextPeer ==
    \/ PeerRegisterStep
    \/ DiscoverCompatiblePeers
    \/ ConnectToPeerStep
    \/ SendPeerHandshakeStep
    \/ CheckPeerConnections
    \/ LinkLostStep
    \/ CleanInactiveNodesStep
    \/ TickStep

\* the peer discovery thread of one ServerPeer, and the nodes that register
SpecPeer == Init /\ [][NextPeer]_vars

NextProject ==
    \/ PeerRegisterStep
    \/ EarlierServerRegisterStep
    \/ RegisterWithProjectId
    \/ TickStep

NextStop ==
    \/ PeerRegisterStep
    \/ DiscoverCompatiblePeers
    \/ ConnectToPeerStep
    \/ SendPeerHandshakeStep
    \/ CheckPeerConnections
    \/ ServerPeerStop
    \/ PeerDiscoveryExit

\* a ServerPeer that is stopped while its peer discovery thread runs
SpecStop == Init /\ [][NextStop]_vars

\* a server that registers with its project id in a ledger other nodes register in
SpecProject == Init /\ [][NextProject]_vars

NextFanout ==
    \/ PeerRegisterStep
    \/ DiscoverCompatiblePeers
    \/ ConnectToPeerStep
    \/ SendPeerHandshakeStep
    \/ CheckPeerConnections
    \/ BroadcastToPeersStep

\* a ServerPeer that connects to its peers and broadcasts to them
SpecFanout == Init /\ [][NextFanout]_vars

NextChannel ==
    \/ ManagerReceiveStep
    \/ DiscoveryReceiveStep
    \/ TickStep

\* a BroadcastManager and a NodeDiscovery that receive datagrams
SpecChannel == InitListening /\ [][NextChannel]_vars

NextCache ==
    \/ ManagerReceiveStep
    \/ DiscoveryReceiveStep
    \/ TickStep
    \/ NodeDiscoveryGetDiscoveredNodesStep
    \/ ManagerGetDiscoveredNodesStep

\* two channels that receive datagrams and are asked for the nodes they discovered
SpecCache == InitListening /\ [][NextCache]_vars

\* the constructor of BroadcastDiscovery having been given any interactive and
\* any iteration_callback
InitAuto ==
    /\ InitLedger
    /\ InitFile
    /\ InitCommuteIdle
    /\ InitSyncIdle
    /\ InitPeer
    /\ InitHash
    /\ InitChannel
    /\ manager = [running |-> FALSE, sock |-> "none", listener_thread |-> FALSE, listeners |-> 0]
    /\ node_discovery = [running |-> FALSE, sock |-> "none", discovery_thread |-> FALSE,
                         broadcast_thread |-> FALSE]
    /\ broadcast_discovery = [running |-> FALSE, sock |-> "unbound", receiver_thread |-> FALSE,
                              auto_discovery_thread |-> FALSE, discovered_nodes |-> 0]
    /\ started = NotStarted
    /\ sender = SenderIdle
    /\ auto \in {[AutoIdle EXCEPT !.interactive = i, !.iteration_callback = c] :
                    i \in BOOLEAN, c \in BOOLEAN}

NextAuto ==
    \/ BroadcastDiscoveryStartStep
    \/ AutoDiscoveryStep
    \/ SenderStep

\* a BroadcastDiscovery whose auto-discovery thread, once started, keeps being scheduled
SpecAuto == InitAuto /\ [][NextAuto]_vars /\ WF_vars(AutoDiscoveryStep)

\* any src directory
InitAnyTree ==
    /\ InitLedger
    /\ InitFile
    /\ InitCommuteIdle
    /\ InitSyncIdle
    /\ InitPeer
    /\ InitChannel
    /\ InitLife
    /\ tree \in Trees
    /\ file_hash_cache = [proc \in Processes |-> [p \in FilePaths |-> NotCached]]
    /\ hashed = [proc \in Processes |-> NeverHashed]

NextHash == CalculateSrcDirectoryHashStep

\* processes that hash a src directory nobody writes to
SpecHash == InitAnyTree /\ [][NextHash]_vars

NextHashWrite ==
    \/ CalculateSrcDirectoryHashStep
    \/ WriteSrcFileStep

\* processes that hash a src directory whose files are written in between
SpecHashWrite == Init /\ [][NextHashWrite]_vars

NextStart ==
    \/ ManagerStartStep
    \/ ManagerStop
    \/ ManagerListenerExit
    \/ NodeDiscoveryStartStep
    \/ NodeDiscoveryStop
    \/ NodeDiscoveryThreadExit
    \/ BroadcastDiscoveryStartStep
    \/ AutoDiscoveryStopped

NextAnnounce ==
    \/ BroadcastDiscoveryStartStep
    \/ AutoDiscoveryStopped
    \/ SendDiscoveryBroadcastStep
    \/ SenderStep
    \/ NodeFound
    \/ DeliverAnnouncement

\* a BroadcastDiscovery that announces itself to the two listening channels; its
\* sender thread, once started, keeps being scheduled
SpecAnnounce == InitListening /\ [][NextAnnounce]_vars /\ WF_vars(SenderStep)

NextSweep ==
    \/ CleanInactiveNodesStep
    \/ RegisterNodeStep
    \/ TickStep

\* clean_inactive_nodes calls on a ledger that holds the nodes of another ledger
SpecSweep == InitMerged /\ [][NextSweep]_vars

\* the three channels being started and stopped
SpecStart == Init /\ [][NextStart]_vars

----------------------------------------------------------------------------
(* Properties of the Ledger Store *)

IdsOf(s) == {s[i].id : i \in DOMAIN s}

WithId(s, id) == {e \in Range(s) : e.id = id}

\* the ledger a load() returns in this state
Loaded == LoadLedger(disk, now)

MergeReturned == last.op = "merge_ledgers" /\ ~last.raised

\* the merged entries of one collection are last-write-wins for every id on both sides
LastWriteWins(local, remote, merged) ==
    \A l \in Range(local), r \in Range(remote) :
        (l.id = r.id /\ r.id # NoId) =>
            IF ParseUpdated(r.updated) > ParseUpdated(l.updated)
            THEN WithId(merged, r.id) = {r}
            ELSE WithId(merged, r.id) = {l}

\* C1: after merge_ledgers returns, for every id present in the local and in the
\* remote ledger the merged ledger holds the remote entry if its `updated` is
\* strictly newer than the local entry's, and the unchanged local entry otherwise
\* (nodes and protocols alike)
C1_LastWriteWins ==
    MergeReturned =>
        /\ LastWriteWins(last.pre.nodes, last.remote.nodes, last.out.nodes)
        /\ LastWriteWins(last.pre.protocols, last.remote.protocols, last.out.protocols)

\* a merge in which a remote node with another port and a newer `updated` replaced
\* the local entry of the same id
C1_Witness ==
    /\ MergeReturned
    /\ \E l \in Range(last.pre.nodes), r \in Range(last.remote.nodes) :
          /\ l.id = r.id
          /\ l.updated >= 0
          /\ r.updated > l.updated
          /\ r.port # l.port
          /\ r \in Range(Loaded.nodes)

KeepsAll(local, remote, merged) ==
    /\ IdsOf(merged) = IdsOf(local) \cup (IdsOf(remote) \ {NoId})
    /\ Cardinality(IdsOf(merged)) = Len(merged)

\* C2: after merge_ledgers returns, the ids of the merged nodes (protocols) are the
\* ids of the local ones together with the ids the remote entries carry, one entry
\* per id, and a load() returns the nodes and protocols merge_ledgers returned
C2_MergeKeepsAll ==
    MergeReturned =>
        /\ KeepsAll(last.pre.nodes, last.remote.nodes, last.out.nodes)
        /\ KeepsAll(last.pre.protocols, last.remote.protocols, last.out.protocols)
        /\ Loaded.nodes = last.out.nodes
        /\ Loaded.protocols = last.out.protocols

\* a merge of a remote ledger that holds an entry without id and an entry with a
\* new id into a ledger that is not empty
C2_Witness ==
    /\ MergeReturned
    /\ last.pre.nodes # <<>>
    /\ NoId \in IdsOf(last.remote.nodes)
    /\ \E r \in Range(last.remote.nodes) :
          r.id # NoId /\ r.id \notin IdsOf(last.pre.nodes) /\ r \in Range(Loaded.nodes)

\* the register_node call repeats an id the ledger holds, with another ip or port
RegisteredAgain ==
    /\ last.op = "register_node"
    /\ \E e \in Range(last.pre.nodes) :
          e.id = last.id /\ (e.ip # last.ip \/ e.port # last.port)

\* C6: after register_node is called a second time with the same id and another
\* ip/port, the ledger holds exactly one entry with that id, and it carries the ip,
\* the port and the `updated` of the second call
C6_UpsertKey ==
    RegisteredAgain =>
        \E e \in Range(Loaded.nodes) :
            /\ WithId(Loaded.nodes, last.id) = {e}
            /\ e.ip = last.ip /\ e.port = last.port /\ e.updated = last.t

\* C7: no two node entries of a ledger built by register_node calls share (ip, port)
C7_UniqueAddr ==
    \A i, j \in DOMAIN Loaded.nodes :
        (Loaded.nodes[i].ip = Loaded.nodes[j].ip
            /\ Loaded.nodes[i].port = Loaded.nodes[j].port) => i = j

\* C8: no two node entries of the ledger share an id
C8_UniqueIds ==
    \A i, j \in DOMAIN Loaded.nodes :
        Loaded.nodes[i].id = Loaded.nodes[j].id => i = j

\* a ledger of two nodes, after an operation that met an id it already held
C8_Witness ==
    /\ Len(Loaded.nodes) >= 2
    /\ \/ last.op = "merge_ledgers" /\ ~last.raised
          /\ IdsOf(last.pre.nodes) \cap IdsOf(last.remote.nodes) # {}
       \/ RegisteredAgain

----------------------------------------------------------------------------
(* Properties of the ledger file under concurrent use *)

SameEntries(a, b) == a.nodes = b.nodes /\ a.protocols = b.protocols

\* C5: a load_ledger that runs while another thread is in save_ledger returns the
\* complete previous ledger or the complete new one, never an empty ledger in
\* place of a valid one
C5_AtomicWrite ==
    \A t \in Threads :
        seen[t].loaded =>
            \/ SameEntries(seen[t].ledger, seen[t].prev)
            \/ \E w \in seen[t].inflight : SameEntries(seen[t].ledger, w)

----------------------------------------------------------------------------
(* Properties of merging in two orders *)

\* the entries of the three ledgers that compete for an id
Competing(local, a, b, id) ==
    {<<"L", e>> : e \in WithId(local, id)}
    \cup {<<"A", e>> : e \in WithId(a, id)}
    \cup {<<"B", e>> : e \in WithId(b, id)}

\* for every id the updated timestamps of the competing entries are pairwise distinct
DistinctUpdated(local, a, b) ==
    \A id \in IdsOf(local) \cup IdsOf(a) \cup IdsOf(b) :
        \A x, y \in Competing(local, a, b, id) :
            x # y => ParseUpdated(x[2].updated) # ParseUpdated(y[2].updated)

CommuteDistinct ==
    /\ DistinctUpdated(Loaded.nodes, remA.nodes, remB.nodes)
    /\ DistinctUpdated(Loaded.protocols, remA.protocols, remB.protocols)

\* C10: from the same local ledger, merging A and then B gives the same set of
\* node entries and of protocol entries as merging B and then A, when the
\* updated timestamps of the entries competing for an id are pairwise distinct
C10_MergeCommutes ==
    (cphase = 4 /\ CommuteDistinct) =>
        /\ ~craised
        /\ Range(diskAB.doc.nodes) = Range(diskBA.doc.nodes)
        /\ Range(diskAB.doc.protocols) = Range(diskBA.doc.protocols)

\* both orders were merged, and the local ledger and both remote ledgers have an
\* entry for node n1 and one for protocol p1, all with different timestamps
C10_Witness ==
    /\ cphase = 4
    /\ CommuteDistinct
    /\ \A k \in {"L", "A", "B"} :
        /\ \E x \in Competing(Loaded.nodes, remA.nodes, remB.nodes, "n1") : x[1] = k
        /\ \E x \in Competing(Loaded.protocols, remA.protocols, remB.protocols, "p1") : x[1] = k
    /\ \E e \in Range(diskAB.doc.nodes) : e.name = "B"

----------------------------------------------------------------------------
(* Properties of the ledger exchange *)

NodeSet(h) == Range(store[h].doc.nodes)

ProtocolSet(h) == Range(store[h].doc.protocols)

\* all hosts hold the same set of node entries and the same set of protocol entries
Converged ==
    \A g, h \in Hosts : NodeSet(g) = NodeSet(h) /\ ProtocolSet(g) = ProtocolSet(h)

\* no two different entries with the same id carry the same updated timestamp
TieFree ==
    \A g, h \in Hosts :
        /\ \A e \in NodeSet(g), f \in NodeSet(h) :
               (e.id = f.id /\ e.updated = f.updated) => e = f
        /\ \A e \in ProtocolSet(g), f \in ProtocolSet(h) :
               (e.id = f.id /\ e.updated = f.updated) => e = f

\* C9 as stated: hosts that keep exchanging ledgers eventually all hold the same
\* node entries and protocol entries, and further exchanges change nothing
C9_EventuallyConsistent == <>[]Converged

\* C9 amended: hosts that keep exchanging ledgers eventually all hold the same
\* node entries and protocol entries for good, unless two different entries
\* with the same id carry the same updated timestamp
C9_EventuallyConsistentTieFree == <>[](TieFree => Converged)

\* the hosts hold the same non-empty node and protocol entries, and an exchange
\* has brought a node entry to a host
C9_Witness ==
    /\ Converged
    /\ TieFree
    /\ synced
    /\ nwrites = MaxWrites
    /\ \E h \in Hosts : NodeSet(h) # {} /\ ProtocolSet(h) # {}

----------------------------------------------------------------------------
(* Properties of the peer connections *)

----------------------------------------------------------------------------
(* Properties of the broadcast channels *)

\* C4: after a channel has received a discovery or ledger_sync message whose
\* hash differs from the receiver's hash, the caches of discovered nodes and the
\* ledger file are as they were when the message arrived
C4_IncompatibleDropped ==
    (/\ received.channel # "none"
     /\ received.message.type \in {"node_discovery", "ledger_sync"}
     /\ received.message.hash # OwnHash)
        => /\ discovered_nodes = received.discovered_nodes
           /\ nd_discovered_nodes = received.nd_discovered_nodes
           /\ disk = received.disk

----------------------------------------------------------------------------
(* Properties of merging a ledger with itself, and of the staleness sweep *)

\* C11: merge_ledgers called with the ledger that is on file returns the nodes,
\* protocols and version of that ledger
C11_MergeIdempotent ==
    (last.op = "merge_ledgers" /\ last.remote = last.pre) =>
        /\ ~last.raised
        /\ last.out.nodes = last.pre.nodes
        /\ last.out.protocols = last.pre.protocols
        /\ last.out.version = last.pre.version

\* the sweep of clean_inactive_nodes has just returned
Swept == last.op = "clean_inactive_nodes"

\* `updated` is older than the threshold, or does not parse
Stale(node) ==
    \/ node.updated = Bad
    \/ last.t - ParseUpdated(node.updated) > last.max_age_hours

\* C12: clean_inactive_nodes marks every active node that is stale inactive, leaves
\* every active node updated within the threshold active, changes no other
\* field, adds and removes no entry, and the file holds the result
C12_CleanMarksStale ==
    Swept =>
        LET pre == last.pre.nodes
            out == last.out.nodes
        IN  /\ Len(out) = Len(pre)
            /\ \A i \in DOMAIN pre :
                  /\ out[i] = [pre[i] EXCEPT !.status = out[i].status]
                  /\ (pre[i].status = "active" /\ Stale(pre[i])) => out[i].status = "inactive"
                  /\ (pre[i].status = "active" /\ ~Stale(pre[i])) => out[i].status = "active"
            /\ last.out.protocols = last.pre.protocols
            /\ Loaded.nodes = out
            /\ Loaded.protocols = last.pre.protocols

\* a sweep that marked one active node and left another one active
C12_Witness ==
    /\ Swept
    /\ \E i \in DOMAIN last.pre.nodes :
          /\ last.pre.nodes[i].status = "active" /\ Stale(last.pre.nodes[i])
          /\ last.out.nodes[i].status = "inactive"
    /\ \E i \in DOMAIN last.pre.nodes :
          /\ last.pre.nodes[i].status = "active" /\ ~Stale(last.pre.nodes[i])
          /\ Loaded.nodes[i].status = "active"

----------------------------------------------------------------------------
(* Properties of starting, stopping and receiving *)

Running(channel) ==
    IF channel = "BroadcastManager" THEN manager.running
    ELSE IF channel = "NodeDiscovery" THEN node_discovery.running
    ELSE broadcast_discovery.running

\* the last start was not refused as already running, and returned False
StartFailed == started.channel # "none" /\ ~started.refused /\ ~started.ret

\* C13: after a start that failed and returned False the channel is not running
C13_FailedStartLeavesStopped == StartFailed => ~Running(started.channel)

\* the last datagram a channel received lacks the envelope: it is no JSON
\* object, or it has no node_id, no type or no hash
BadDatagram ==
    /\ received.channel # "none"
    /\ \/ received.message.form # "object"
       \/ received.message.node_id = NoId
       \/ received.message.hash = NoHash

ListeningOn(channel) ==
    IF channel = "BroadcastManager" THEN manager.listener_thread
    ELSE node_discovery.discovery_thread

\* C14: after a bad datagram the caches and the ledger file are as they were
\* when it arrived, and the receive loop of a channel that is running goes on
C14_BadDatagramDiscarded ==
    BadDatagram =>
        /\ discovered_nodes = received.discovered_nodes
        /\ nd_discovered_nodes = received.nd_discovered_nodes
        /\ disk = received.disk
        /\ Running(received.channel) => ListeningOn(received.channel)

\* the last datagram a channel received carries the channel's own node id
OwnDatagram ==
    /\ received.channel # "none"
    /\ received.message.form = "object"
    /\ received.message.node_id = OwnNodeId

\* C15: the channel's own node id is never a key of a cache of discovered nodes,
\* and a datagram that carries it changes neither the caches nor the ledger file
C15_SelfFiltered ==
    /\ \A c \in discovered_nodes \cup nd_discovered_nodes : c.id # OwnNodeId
    /\ OwnDatagram =>
          /\ disk = received.disk
          /\ discovered_nodes = received.discovered_nodes
          /\ nd_discovered_nodes = received.nd_discovered_nodes

\* a channel that holds another node has received its own announcement, with
\* its own hash
C15_Witness ==
    /\ OwnDatagram
    /\ received.message.type = "node_discovery"
    /\ received.message.hash = OwnHash
    /\ received.discovered_nodes # NoNodes

\* a channel has received an announcement of the BroadcastDiscovery
AnnouncementReceived ==
    /\ received.channel # "none"
    /\ received.message.type = "discovery"
    /\ received.message.node_id = AnnouncerId

CacheOf(channel) ==
    IF channel = "BroadcastManager" THEN discovered_nodes ELSE nd_discovered_nodes

\* C16: once a listening channel has received a datagram of
\* send_discovery_broadcast, its cache of discovered nodes holds exactly one entry
\* for the announcer
C16_AnnouncerDiscovered ==
    AnnouncementReceived =>
        Cardinality({c \in CacheOf(received.channel) : c.id = AnnouncerId}) = 1

----------------------------------------------------------------------------
(* Properties of the sender thread of BroadcastDiscovery *)

SenderRuns == sender.at \in {"burst", "check"}

SenderBounded ==
    /\ sender.bursts <= 1 + sender.retry_count
    /\ (sender.at = "burst" /\ sender.bursts > 0) =>
           sender.discovered_after <= sender.discovered_before
    /\ sender.at = "done" =>
           sender.result \in {"discovery successful", "retry limit reached"}
    /\ sender.result = "discovery successful" =>
           sender.discovered_after > sender.discovered_before
    /\ sender.result = "retry limit reached" =>
           sender.current_retry = sender.retry_count + 1

\* C17: one send_discovery_broadcast sends at most 1 + retry_count bursts, sends
\* none after a check that saw the count of discovered nodes grown, and its
\* sender thread always comes to an end, with one of its two log messages
C17_RetryBounded == []SenderBounded /\ (SenderRuns ~> sender.at = "done")

\* the sender has used up a budget of at least one retry
C17_Witness ==
    /\ sender.at = "done"
    /\ sender.result = "retry limit reached"
    /\ sender.retry_count > 0
    /\ sender.bursts = 1 + sender.retry_count

\* C18: no loop of a channel sends a burst after the channel has stopped
\* running: the sender thread finds running False and returns
C18_StopCancelsLoops == ~sender.unheeded

----------------------------------------------------------------------------
(* Properties of the peer connections *)

\* the peer discovery thread finishes a pass and goes to sleep
PassEnds == ppc.at # "sleep" /\ ppc'.at = "sleep"

C20_PeerEligibility ==
    ppc.at # "sleep" =>
        /\ discovered_peers = ppc.project_nodes
        /\ ppc.todo \subseteq ppc.project_nodes

\* C21: broadcast_to_peers sends to every connected peer, returns the number of
\* peers whose send succeeded, which lies between 0 and the number of connected
\* peers, and leaves connected_peers and peer_clients as they were
C21_FanoutCount ==
    [][fanout' # fanout =>
          /\ fanout'.called
          /\ fanout'.clients = connected_peers
          /\ fanout'.sent_count = Cardinality(fanout'.succeeded)
          /\ fanout'.sent_count \in 0..Cardinality(connected_peers)
          /\ connected_peers' = connected_peers
          /\ peer_clients' = peer_clients]_vars

\* a broadcast to two peers, of which one send succeeded
C21_Witness ==
    /\ fanout.called
    /\ Cardinality(fanout.clients) = 2
    /\ fanout.sent_count = 1

----------------------------------------------------------------------------
(* Properties of loading *)

\* the file holds a document save_ledger wrote, complete
Sound(d) == d.exists /\ ParsesAsJson(d) /\ d.doc \notin {Undecodable, NotALedger, Unreadable}

\* C22: load_ledger does not raise; it returns the document of a sound file and
\* the default ledger, with no nodes and no protocols, for a file that is absent,
\* unreadable or corrupt; get_node_by_id, built on it, does not raise either
C22_LoadNeverRaises ==
    /\ last.op = "load_ledger" =>
          /\ ~last.raised
          /\ last.out = IF Sound(last.file) THEN last.file.doc
                        ELSE CreateDefaultLedger(last.t)
    /\ last.op = "get_node_by_id" => ~last.raised

\* C23: in a ledger built by register_protocol calls no two protocol entries
\* share an id and no two share a name, and a call whose id or name matches an
\* entry does not add one
C23_UniqueProtocols ==
    /\ \A i, j \in DOMAIN Loaded.protocols :
          (\/ Loaded.protocols[i].id = Loaded.protocols[j].id
           \/ Loaded.protocols[i].name = Loaded.protocols[j].name) => i = j
    /\ (/\ last.op = "register_protocol"
        /\ Len(last.out.protocols) > Len(last.pre.protocols))
          => last.id \notin IdsOf(last.pre.protocols)

\* C24: register_node, merge_ledgers and clean_inactive_nodes remove no node:
\* every id the ledger held when the operation loaded it is in the ledger file
\* afterwards
C24_NoHardDelete ==
    last.op \in {"register_node", "merge_ledgers", "clean_inactive_nodes"} =>
        IdsOf(last.pre.nodes) \subseteq IdsOf(Loaded.nodes)

\* a sweep has marked a node inactive, and the ledger holds as many nodes as before
C24_Witness ==
    /\ last.op = "clean_inactive_nodes"
    /\ last.count > 0
    /\ \E e \in Range(Loaded.nodes) : e.status = "inactive"
    /\ Len(Loaded.nodes) = Len(last.pre.nodes)

\* C25: a get_discovered_nodes call does not raise, returns the entries of the
\* cache that are not older than max_age_minutes, leaves exactly these in the
\* cache, and leaves the ledger file as it is
C25_PurgeThenReturn ==
    [][returned' # returned =>
          /\ ~returned'.raised
          /\ returned'.result =
                {c \in returned'.cache :
                    returned'.at - c.last_seen <= returned'.max_age_minutes}
          /\ returned'.result = IF returned'.channel = "BroadcastManager"
                                THEN discovered_nodes' ELSE nd_discovered_nodes'
          /\ disk' = disk]_vars

Prompted == auto.interactive /\ auto.iteration_callback

\* no call of the callback before the first cycle; a false answer or an
\* exception stops the loop; a true answer does not
GateAnswers ==
    /\ auto.cycles = 0 => auto.asked_since = 0
    /\ auto.cycles = 1 => auto.gate = 0
    /\ auto.asked_since <= 1
    /\ auto.answer \in {"no", "raises"} =>
          /\ auto.at = "stopped"
          /\ ~broadcast_discovery.running
          /\ ~broadcast_discovery.auto_discovery_thread
    /\ (auto.answer = "yes" /\ auto.asked_since = 1) => auto.at \in {"sleeping", "head"}

\* after a true answer the next cycle begins
NextCycleRuns ==
    \A k \in 1..(MaxCycles - 1) :
        (auto.answer = "yes" /\ auto.asked_since = 1 /\ auto.cycles = k) ~> auto.cycles = k + 1

C27_ProjectTagRegistered ==
    server_protocols # <<>> =>
        /\ Cardinality({i \in DOMAIN server_protocols : server_protocols[i] = ProjectTag}) = 1
        /\ \E e \in Range(Loaded.nodes) : e.id = ServerId /\ ProjectTag \in Range(e.protocols)
        /\ \E e \in ProjectNodesOf(Loaded, OwnHash, "n1") : e.id = ServerId

\* C28: over a src directory that is not written to, every call of
\* calculate_src_directory_hash, in whichever process and whichever order the
\* files are enumerated in, returns the same combined hash
C28_HashDeterministic ==
    \A p, q \in Processes :
        (hashed[p].called /\ hashed[q].called) =>
            hashed[p].combined_hash = hashed[q].combined_hash

\* two processes have hashed two readable files that differ, having found them
\* in opposite orders
C28_Witness ==
    /\ hashed["p1"].called /\ hashed["p2"].called
    /\ Len(hashed["p1"].file_hashes) = 2
    /\ hashed["p1"].file_hashes[1].hash # hashed["p1"].file_hashes[2].hash
    /\ hashed["p1"].file_hashes[1].path = hashed["p2"].file_hashes[2].path

\* the two trees differ in the content of a file that is hashed
ScannedDiffer(t1, t2) ==
    \E p \in FilePaths \ ExcludedFiles :
        t1[p] # t2[p] /\ t1[p] \in Bytes /\ t2[p] \in Bytes

\* C29: a call made after the content of a scanned file has changed returns a
\* combined hash other than the one the process's call before the change returned
C29_ChangeChangesHash ==
    [][\A p \in Processes :
          (/\ hashed[p].called
           /\ hashed'[p] # hashed[p]
           /\ ScannedDiffer(hashed[p].tree, hashed'[p].tree))
             => hashed'[p].combined_hash # hashed[p].combined_hash]_vars

\* an "updated" that is missing or that datetime.fromisoformat rejects
NoTimestamp(entry) == entry.updated \in {Missing, Bad}

\* C30: a merge_ledgers call does not raise and saves its result, and of two
\* entries with the same id of which one has no valid "updated", the other is kept
C30_BadTimestampLoses ==
    last.op = "merge_ledgers" =>
        /\ ~last.raised
        /\ Loaded.nodes = last.out.nodes
        /\ \A l \in Range(last.pre.nodes), r \in Range(last.remote.nodes) :
              (l.id = r.id /\ r.id # NoId) =>
                  /\ (NoTimestamp(r) /\ ~NoTimestamp(l)) => l \in Range(last.out.nodes)
                  /\ (NoTimestamp(l) /\ ~NoTimestamp(r)) => r \in Range(last.out.nodes)

\* the BroadcastManager has accepted a discovery message that names its sender
DiscoveryAccepted ==
    /\ received.channel = "BroadcastManager"
    /\ received.message.form = "object"
    /\ received.message.type = "node_discovery"
    /\ received.message.hash = OwnHash
    /\ received.message.node_id \notin {NoId, OwnNodeId}

\* the callback, if there is one, was invoked once, with this argument, when the
\* cache and the ledger file were what they are now
CalledOnceWith(arg) ==
    /\ received.callback.calls <= 1
    /\ received.callback.on # "none" => received.callback.calls = 1
    /\ received.callback.calls = 1 =>
          /\ received.callback.arg = arg
          /\ received.callback.cache = discovered_nodes
          /\ received.callback.disk = disk

\* C31: after the discovery handler has accepted a message from node X, the
\* cache holds X, the ledger holds an entry with id X, the callback was invoked
\* once with X's info after both updates, and the receive loop goes on, whether
\* or not the callback raised
C31_DiscoveryUpserts ==
    DiscoveryAccepted =>
        /\ Cardinality({c \in discovered_nodes : c.id = received.message.node_id}) = 1
        /\ \E e \in Range(Loaded.nodes) : e.id = received.message.node_id
        /\ \A c \in discovered_nodes :
              c.id = received.message.node_id => CalledOnceWith(c)
        /\ manager.running /\ manager.listener_thread

\* the BroadcastManager has accepted a ledger_sync message
SyncAccepted ==
    /\ received.channel = "BroadcastManager"
    /\ received.message.form = "object"
    /\ received.message.type = "ledger_sync"
    /\ received.message.node_id # OwnNodeId
    /\ received.message.hash = OwnHash
    /\ received.message.has_ledger

\* C32: when the ledger-sync handler accepts a message, the ledger file becomes
\* what merge_ledgers makes of the previous ledger and the payload and the
\* callback is invoked once with it; when merge_ledgers raises, the file stays
\* as it was, the callback is not invoked and the receive loop goes on
C32_SyncMerges ==
    [][(received' # received /\ SyncAccepted') =>
          LET merged == MergeLedgersResult(LoadLedger(disk, now),
                                           LedgerPayload(received'.message), now)
          IN  IF merged.raised
              THEN /\ disk' = disk
                   /\ received'.callback.calls = 0
                   /\ manager'.running /\ manager'.listener_thread
              ELSE /\ disk' = SaveLedger(merged.ledger, now)
                   /\ received'.callback.calls <= 1
                   /\ received'.callback.on # "none" =>
                         /\ received'.callback.calls = 1
                         /\ received'.callback.arg = disk'.doc
                         /\ received'.callback.disk = disk']_vars

\* a ledger_sync message has been merged into a ledger that held another node,
\* and the callback, which raised, has received the merged ledger
C32_Witness ==
    /\ SyncAccepted
    /\ received.callback.on = "raises"
    /\ received.callback.calls = 1
    /\ received.callback.arg = disk.doc
    /\ Len(disk.doc.nodes) = 2

\* the position of the entry the last register_node call matched, 0 if it added one
MatchedAt ==
    FirstOf({i \in DOMAIN last.pre.nodes :
                NodeMatches(last.pre.nodes[i], last.ip, last.port, last.id)})

\* C33: when register_node matches an existing entry, the entry's ip, port, hash,
\* name and protocols become the values of the call (an empty protocol list
\* included), `updated` is refreshed and status is active
C33_SightingRewrites ==
    (last.op = "register_node" /\ MatchedAt # 0) =>
        LET e == Loaded.nodes[MatchedAt]
        IN  /\ e.ip = last.ip /\ e.port = last.port
            /\ e.hash = OwnHash /\ e.name = last.name
            /\ e.protocols = last.protocols
            /\ e.updated = last.t /\ e.status = "active"

\* C34: a start() whose bind fails returns success and leaves the channel running
C34_BindFailureTolerated ==
    [][(started' # started /\ ~started'.refused /\ started'.outcome = "bind fails") =>
          /\ started'.ret
          /\ started'.channel = "BroadcastManager" => manager'.running
          /\ started'.channel = "NodeDiscovery" => node_discovery'.running
          /\ started'.channel = "BroadcastDiscovery" => broadcast_discovery'.running]_vars

\* C35: a pass in which the connection or the handshake of a peer failed has
\* all the same attempted every discovered peer that was not connected, ends
\* with the liveness check of the connected peers, and the thread is back at
\* the head of its loop
C35_PeerFailureIsolated ==
    [][(PassEnds /\ ppc.failed # NoPeers) =>
          /\ discovered_peers \subseteq ppc.attempted \cup connected_peers
          /\ \A p \in PeerIds : ~link[p] => p \notin connected_peers' \cup peer_clients'
          /\ ppc' = Sleeping]_vars

\* a pass is about to end in which one peer failed and the other one, attempted
\* after it, is connected
C35_Witness ==
    /\ ppc.at = "connect"
    /\ ppc.todo = NoPeers
    /\ \E p, q \in PeerIds :
          /\ p # q
          /\ p \in ppc.failed /\ p \notin connected_peers
          /\ q \in ppc.attempted \ ppc.failed /\ q \in connected_peers /\ hs[q] = "ack"

\* the number of entries a sweep has changed
ChangedBy(sweep) ==
    Cardinality({i \in DOMAIN sweep.pre.nodes : sweep.out.nodes[i] # sweep.pre.nodes[i]})

\* C36: clean_inactive_nodes returns the number of nodes it changed to inactive
\* and writes the ledger only if it changed one, and a call that follows another
\* call at once, with the same threshold, returns 0 and does not write
C36_SweepIdempotent ==
    [][(nops' # nops /\ last'.op = "clean_inactive_nodes") =>
          /\ last'.count = ChangedBy(last')
          /\ ChangedBy(last') = 0 => disk' = disk
          /\ (/\ last.op = "clean_inactive_nodes"
              /\ last.t = last'.t
              /\ last.max_age_hours = last'.max_age_hours) =>
                 (last'.count = 0 /\ disk' = disk)]_vars

\* get_node_by_id returns None
NoNode == [id |-> NoId, ip |-> "", port |-> 0]

\* what get_node_by_id(node_id) returns from a ledger: the first entry with the id
NodeById(ledger, node_id) ==
    LET k == FirstOf({i \in DOMAIN ledger.nodes : ledger.nodes[i].id = node_id})
    IN  IF k = 0 THEN NoNode ELSE ledger.nodes[k]

\* C37: after register_node(ip, port, node_id = X) has returned X,
\* get_node_by_id(X) returns an entry with the ip and the port of the call
C37_ReturnedIdFindsNode ==
    last.op = "register_node" =>
        /\ NodeById(Loaded, last.ret).id = last.ret
        /\ NodeById(Loaded, last.ret).ip = last.ip
        /\ NodeById(Loaded, last.ret).port = last.port

\* no thread is inside register_node or save_ledger, and the file is whole
AllSaved ==
    /\ \A t \in Threads : pc[t] = "idle"
    /\ disk.exists /\ ~disk.torn /\ disk.len = DocChunks

\* C38: when the register_node calls of the main thread and of the receive
\* loop have both completed, the ledger file holds the nodes each of them saved
C38_NoLostUpdate ==
    AllSaved => \A t \in Threads : IdsOf(work[t].nodes) \subseteq IdsOf(Loaded.nodes)

\* C39: whatever start() and stop() calls a BroadcastManager has seen, at most
\* one thread is in its receive loop
C39_OneListener == manager.listeners <= 1

=============================================================================
